---- MODULE Spec2Model ----
(***************************************************************************)
(* Velox worker pool (src/src/threadpool.cpp, src/include/threadpool.hpp)  *)
(* and configuration registry (src/include/config.hpp, src/src/config.cpp).*)
(*                                                                         *)
(* One ThreadPool object, its worker threads, its monitor thread and the   *)
(* threads that call its public methods.  Every public method except       *)
(* setMaxTaskCount runs under m_status_mutex, so two of them never         *)
(* overlap; a method is split into several steps only where it gives up    *)
(* atomicity that another thread can observe (submit between its           *)
(* admission check and its emplace, shutdown between its phases).  The     *)
(* worker loop is split at every point where another thread can change     *)
(* what the worker reads next: its own status (written by pause, resume    *)
(* and terminate under the worker's status lock only), the terminating     *)
(* flag (an atomic written without the queue lock) and the queue           *)
(* (protected by m_task_queue_mutex).                                      *)
(*                                                                         *)
(* The configuration side has no thread of its own and takes no lock:      *)
(* each call on the registry or on a variable is one step.  Spec and       *)
(* FairSpec run the pool, CfgSpec the "threadpool" variable and the        *)
(* listener of the pool, ScaleSpec the resizing of a pool whose limits     *)
(* change, RegSpec the registry and VarSpec one variable with its          *)
(* listeners; each leaves the variables of the others as Init set them.    *)
(***************************************************************************)
EXTENDS Naturals, Sequences, FiniteSets

\* Bounds of the model.
MaxWorkers == 2     \* worker threads ever created by one pool
MaxTasks == 2       \* submit calls that are admitted
MaxCap == 1         \* largest value given to max_task_count
MaxUnderflow == 1   \* pops of an empty queue that return garbage
MaxNameLen == 2     \* characters of a configuration name
MaxVars == 1        \* variables the registry holds at a time
MaxCreated == 2     \* ConfigVar objects ever created through the registry
MaxListeners == 4   \* addListener calls
MaxTextLen == 2     \* characters of a text given to fromString
MaxFiles == 2       \* .yml files of the configuration directory
MaxTime == 2        \* largest last write time of a file
MaxElems == 2       \* elements of a converted vector

Workers == 1..MaxWorkers
Tasks == 1..MaxTasks
NoTask == 0

\* ThreadPoolConfig's default member values: the configuration the pool is built with.
DefaultMaxTaskCount == 0
DefaultCoreThreadCount == 1
DefaultMaxThreadCount == 8
DefaultKeepAliveTime == 5000
DefaultMonitorInterval == 200
DefaultEnableDynamicScaling == TRUE

VARIABLES
  status,             \* ThreadPool::m_status
  task_queue,         \* ThreadPool::m_task_queue: the tasks a pop can reach, oldest first
  underflow,          \* pops of the empty std::queue not yet compensated by an emplace
  crashed,            \* the process died on a pop of the empty queue
  queue_mutex,        \* holder of m_task_queue_mutex (0: free)
  max_task_count,     \* ThreadPool::m_max_task_count
  worker_list,        \* ThreadPool::m_worker_list
  zombie_workers,     \* ThreadPool::m_zombie_workers
  terminating_flag,   \* ThreadPool::m_terminating_flag
  busy_thread_count,  \* ThreadPool::m_busy_thread_count
  core_thread_count,  \* ThreadPool::m_core_thread_count
  max_thread_count,   \* ThreadPool::m_max_thread_count
  monitor,            \* m_monitor_thread: "off" (never started), "run", "exited"
  w_status,           \* WorkerThread::m_status, per worker
  w_pc,               \* position of each worker thread in WorkerThread::run
  pause_sem,          \* WorkerThread::m_pause_sem (BinarySemaphore::m_flag)
  w_task,             \* the task a worker holds after its pop
  idle_expired,       \* now - m_last_active_time >= m_keep_alive_time, per worker
  created,            \* WorkerThread objects constructed so far
  sub,                \* a submit call passed its admission check and holds m_status_mutex
  sd,                 \* progress of the shutdown call that set SHUTDOWN
  admitted,           \* submit calls that returned a future so far
  done,               \* how many times each task was executed
  handle,             \* what each task's future holds: "pending", "value" or "exception"
  pause_mark,         \* value of admitted when the pool was last paused
  last,               \* outcome of the public call that returned last
  keep_alive_time,    \* ThreadPool::m_keep_alive_time
  monitor_interval,   \* ThreadPool::m_monitor_interval
  cfg,                \* m_val of the ConfigVar<ThreadPoolConfig> named "threadpool"
  loaded,             \* the "threadpool" node of the last YAML load, if cfg is still from it
  omitted_changed,    \* fields the last YAML load omitted and changed in cfg all the same
  monitor_did,        \* what the last monitor tick that resized the pool did
  registry,           \* Config::getDatas(): name -> the ConfigVar registered under it
  reg_created,        \* ConfigVar objects created by getOrCreateConfigVarPtr so far
  reg_call,           \* the last call on the registry: operation, name, type argument
  reg_result,         \* what that call returned or threw
  m_val,              \* ConfigVar::m_val of one ConfigVar<int>
  m_cbs,              \* ConfigVar::m_cbs: the keys of the registered listeners
  s_fun_id,           \* the static counter of ConfigVar::addListener
  removed,            \* keys erased by delListener or clearAllListener so far
  var_call,           \* the last call on the variable and its argument
  calls,              \* the listener invocations made by that call, in order
  returned,           \* keys that addListener of this variable returned so far
  var_result,         \* what the last toString or fromString call returned or threw
  str_val,            \* ConfigVar::m_val of one ConfigVar<std::string>
  yaml_root,          \* the node given to the last loadFromYaml call
  all_nodes,          \* the (key, node) pairs listAllMembers made of that node
  file_text,          \* what each .yml file of the directory holds
  file_mtime,         \* last write time of each file
  cached_timestamp,   \* file_last_write_times of getCachedTimestampForFile
  dir_call,           \* the last loadFromConfDir call and what it did with each file
  codec_val,          \* a value given to a TypeConverter<T, std::string>
  codec_text,         \* the YAML text made from it
  codec_back,         \* the value TypeConverter<std::string, T> made from that text
  codec_state,        \* "value", "text", "back", or "threw" when a converter threw
  lk_prog,            \* the lock and unlock calls of the function each thread is in
  lk_pc,              \* the call of lk_prog each thread makes next (0: in no function)
  lk_held,            \* the mutexes each thread holds
  lk_shared,          \* those of them it holds through a std::shared_lock
  str_fun_id,         \* the static counter of ConfigVar<std::string>::addListener
  str_cbs,            \* ConfigVar::m_cbs of the ConfigVar<std::string>
  issued,             \* the addListener calls of the process: variable, type, key
  pool_alive,         \* the ThreadPool object has not been destroyed
  cfg_cbs,            \* m_cbs of the "threadpool" variable: the pools whose listener it holds
  stale_call          \* the last setValue called the listener of a destroyed pool

vars == << status, task_queue, underflow, crashed, queue_mutex, max_task_count,
           worker_list, zombie_workers, terminating_flag, busy_thread_count,
           core_thread_count, max_thread_count, monitor, w_status, w_pc,
           pause_sem, w_task, idle_expired, created, sub, sd, admitted, done,
           handle, pause_mark, last, keep_alive_time, monitor_interval, cfg,
           loaded, omitted_changed, monitor_did, registry, reg_created, reg_call,
           reg_result, m_val, m_cbs, s_fun_id, removed, var_call, calls,
           returned, var_result, str_val, yaml_root, all_nodes, file_text,
           file_mtime, cached_timestamp, dir_call, codec_val, codec_text, codec_back,
           codec_state, lk_prog, lk_pc, lk_held, lk_shared, str_fun_id, str_cbs, issued,
           pool_alive, cfg_cbs, stale_call >>

\* The state of one configuration variable and its listeners.
varVars == << m_val, m_cbs, s_fun_id, removed, var_call, calls, returned,
             var_result, str_val >>

\* The state of the loaders: the last YAML node, the files and their cache.
loadVars == << yaml_root, all_nodes, file_text, file_mtime, cached_timestamp,
              dir_call >>

\* The state of one conversion to YAML text and back.
codecVars == << codec_val, codec_text, codec_back, codec_state >>

\* The mutexes of the pool and who holds them.
lockVars == << lk_prog, lk_pc, lk_held, lk_shared >>

\* The keys addListener handed out in the whole process.
idVars == << str_fun_id, str_cbs, issued >>

\* The life of the pool object and its listener on the "threadpool" variable.
lifeVars == << pool_alive, cfg_cbs, stale_call >>

\* The state of the registry.
regVars == << registry, reg_created, reg_call, reg_result >>

\* The state of the configuration side of the pool.
cfgVars == << keep_alive_time, monitor_interval, cfg, loaded, omitted_changed,
             monitor_did >>

----------------------------------------------------------------------------
\* Helpers

Range(s) == { s[i] : i \in 1..Len(s) }

Min(a, b) == IF a < b THEN a ELSE b

\* OpenStatus with the status check also letting SHUTDOWN through.
OpenStatusWithShutdown == {"RUNNING", "PAUSED", "SHUTDOWN"}

\* ThreadPool::Status values in which submit / increase / decrease are allowed.
OpenStatus == {"RUNNING", "PAUSED"}

\* std::queue::empty() on m_task_queue.  After a pop of the empty queue the
\* begin pointer is past the end pointer, so empty() is false until later
\* emplaces have moved the end pointer up to it.
QueueEmpty == task_queue = << >> /\ underflow = 0

\* m_task_queue.size() >= n.  With the begin pointer past the end pointer the
\* unsigned difference wraps: size() is larger than any n.
QueueSizeAtLeast(n) == IF underflow > 0 THEN TRUE ELSE Len(task_queue) >= n

\* m_status_mutex is held across steps only by a submit between its admission
\* check and its emplace and by a shutdown between its resume and its store.
StatusMutexFree == ~sub /\ sd # "resumed"

\* m_task_queue_cv.notify_all(): every thread blocked in wait() returns to
\* reacquire the queue lock.
NotifyAll(pc) == [w \in Workers |-> IF pc[w] = "waiting" THEN "lock" ELSE pc[w]]

\* m_task_queue.front(): the oldest task of the queue.
QueueFront(q) == Head(q)

\* WorkerThread::isWake
isWake(w) ==
  \/ w_status[w] # "RUNNING"
  \/ ~QueueEmpty
  \/ terminating_flag

----------------------------------------------------------------------------
\* Construction.

\* The members of ThreadPoolConfig.
ConfigFields == {"max_task_count", "core_thread_count", "max_thread_count",
                 "keep_alive_time", "monitor_interval"}

\* ThreadPoolConfig(): a default-constructed configuration.
DefaultConfig ==
  [max_task_count |-> DefaultMaxTaskCount,
   core_thread_count |-> DefaultCoreThreadCount,
   max_thread_count |-> DefaultMaxThreadCount,
   keep_alive_time |-> DefaultKeepAliveTime,
   monitor_interval |-> DefaultMonitorInterval,
   enable_dynamic_scaling |-> DefaultEnableDynamicScaling]

\* ThreadPool::ThreadPool(config): the members are initialised from config,
\* the monitor thread is started if dynamic scaling is enabled, and
\* core_thread_count workers are constructed.
Constructed(config) ==
  /\ status = "RUNNING"
  /\ task_queue = << >>
  /\ underflow = 0
  /\ crashed = FALSE
  /\ queue_mutex = 0
  /\ max_task_count = config.max_task_count
  /\ worker_list = [i \in 1..config.core_thread_count |-> i]
  /\ zombie_workers = << >>
  /\ terminating_flag = FALSE
  /\ busy_thread_count = 0
  /\ core_thread_count = config.core_thread_count
  /\ max_thread_count = config.max_thread_count
  /\ keep_alive_time = config.keep_alive_time
  /\ monitor_interval = config.monitor_interval
  /\ monitor = IF config.enable_dynamic_scaling THEN "run" ELSE "off"
  /\ w_status = [w \in Workers |-> "RUNNING"]
  /\ w_pc = [w \in Workers |-> IF w <= config.core_thread_count THEN "start" ELSE "none"]
  /\ pause_sem = [w \in Workers |-> FALSE]
  /\ w_task = [w \in Workers |-> NoTask]
  /\ idle_expired = [w \in Workers |-> TRUE]
  /\ created = config.core_thread_count
  /\ sub = FALSE
  /\ sd = "none"
  /\ admitted = 0
  /\ done = [t \in Tasks |-> 0]
  /\ handle = [t \in Tasks |-> "pending"]
  /\ pause_mark = 0
  /\ last = "ok"

\* Config::getOrCreateConfigVarPtr("threadpool", ThreadPoolConfig(), ...) at
\* the end of the constructor: the variable is created holding the default
\* configuration, whatever configuration the pool itself was built with.
ThreadPoolVarCreated ==
  /\ cfg = DefaultConfig
  /\ loaded = << >>
  /\ omitted_changed = {}
  /\ monitor_did = "none"

\* No addListener call has been made on a variable of the application, and the
\* pool exists with the listener its constructor added to "threadpool".
NoKeyIssued ==
  /\ str_fun_id = 0
  /\ str_cbs = {}
  /\ issued = << >>

PoolAlive ==
  /\ pool_alive = TRUE
  /\ cfg_cbs = {"pool"}
  /\ stale_call = FALSE

\* The registry of a process in which no other variable has been registered.
RegistryEmpty ==
  /\ registry = << >>
  /\ reg_created = 0
  /\ reg_call = [op |-> "none", name |-> << >>, type |-> "none"]
  /\ reg_result = [kind |-> "none", id |-> 0]

\* The result slot of a call that is neither toString nor fromString.
NoResult == [threw |-> FALSE, ret |-> TRUE, input |-> << >>, output |-> << >>]

\* ConfigVar<int>(name, 0) with no listener, and ConfigVar<std::string>(name, "a").
VarCreated ==
  /\ m_val = 0
  /\ m_cbs = {}
  /\ s_fun_id = 0
  /\ removed = {}
  /\ var_call = [op |-> "none", arg |-> 0]
  /\ calls = << >>
  /\ returned = {}
  /\ var_result = NoResult
  /\ str_val = << 97 >>

\* A YAML node: a scalar with its text, or a map with its entries in the
\* order of the document, each entry a key and a node.
YamlScalar(text) == [kind |-> "scalar", text |-> text, entries |-> << >>]

YamlMap(entries) == [kind |-> "map", text |-> << >>, entries |-> entries]

\* A YAML sequence with its items in the order of the document; an item has
\* no key.
YamlSeq(items) ==
  [kind |-> "sequence", text |-> << >>,
   entries |-> [i \in 1..Len(items) |-> [key |-> << >>, node |-> items[i]]]]

\* The files a configuration directory can hold.
Files == 1..MaxFiles

\* A path with no file, a file that is not YAML, a file that parses to root.
NoFile == [state |-> "absent", root |-> YamlMap(<< >>)]

Malformed == [state |-> "malformed", root |-> YamlMap(<< >>)]

YamlFile(root) == [state |-> "yaml", root |-> root]

\* A result slot for the calls that are not loadFromConfDir.
NoDirCall ==
  [op |-> "none", force |-> FALSE, files |-> << >>, vanished |-> {},
   applied |-> {}, failed |-> {}, skipped |-> {}]

\* No node was loaded, the directory is empty and the cache of last write
\* times, a function-local static map, has no entry: operator[] gives 0.
NothingLoaded ==
  /\ yaml_root = YamlMap(<< >>)
  /\ all_nodes = << >>
  /\ file_text = [f \in Files |-> NoFile]
  /\ file_mtime = [f \in Files |-> 0]
  /\ cached_timestamp = [f \in Files |-> 0]
  /\ dir_call = NoDirCall

\* A value of one of the converted types: a std::vector<std::string>, a
\* std::set<int> or a ThreadPoolConfig.
VectorValue(v) == [type |-> "vector", vec |-> v, set |-> {}, config |-> DefaultConfig]

SetValueOf(s) == [type |-> "set", vec |-> << >>, set |-> s, config |-> DefaultConfig]

ConfigValue(c) == [type |-> "config", vec |-> << >>, set |-> {}, config |-> c]

\* A YAML text: the characters of a sequence, or the node of a ThreadPoolConfig
\* as the map from its keys to their values.
NoText == [chars |-> << >>, node |-> [f \in ConfigFields |-> 0]]

\* No converter was called.
NothingConverted ==
  /\ codec_val = ConfigValue(DefaultConfig)
  /\ codec_text = NoText
  /\ codec_back = ConfigValue(DefaultConfig)
  /\ codec_state = "value"

\* The threads that take the mutexes of the pool: two workers, the monitor
\* and a thread of the application.
LockThreads == {"worker1", "worker2", "monitor", "caller"}

\* No thread is inside a function of the pool.
NoLockHeld ==
  /\ lk_prog = [t \in LockThreads |-> << >>]
  /\ lk_pc = [t \in LockThreads |-> 0]
  /\ lk_held = [t \in LockThreads |-> {}]
  /\ lk_shared = [t \in LockThreads |-> {}]

\* A pool built with a default ThreadPoolConfig.
Init ==
  /\ Constructed(DefaultConfig)
  /\ ThreadPoolVarCreated
  /\ RegistryEmpty
  /\ VarCreated
  /\ NothingLoaded
  /\ NoLockHeld
  /\ NoKeyIssued
  /\ PoolAlive
  /\ NothingConverted

----------------------------------------------------------------------------
\* WorkerThread::run, one action per step of the loop.

\* Phase 1: the worker looks at its own status under its status lock.
WorkerCheckStatus(w) ==
  /\ w_pc[w] = "start"
  /\ IF w_status[w] = "TERMINATING"
       THEN /\ w_status' = [w_status EXCEPT ![w] = "TERMINATED"]
            /\ w_pc' = [w_pc EXCEPT ![w] = "exited"]
       ELSE /\ w_pc' = [w_pc EXCEPT ![w] = IF w_status[w] = "PAUSED" THEN "sem" ELSE "lock"]
            /\ UNCHANGED w_status
  /\ UNCHANGED << status, task_queue, underflow, crashed, queue_mutex, max_task_count,
                  worker_list, zombie_workers, terminating_flag, busy_thread_count,
                  core_thread_count, max_thread_count, monitor, pause_sem, w_task,
                  idle_expired, created, sub, sd, admitted, done, pause_mark, last,
                  handle >>

\* m_pause_sem.acquire(): blocks until the flag is set, then consumes it.
WorkerAcquireSem(w) ==
  /\ w_pc[w] = "sem"
  /\ pause_sem[w]
  /\ pause_sem' = [pause_sem EXCEPT ![w] = FALSE]
  /\ w_pc' = [w_pc EXCEPT ![w] = "start"]
  /\ UNCHANGED << status, task_queue, underflow, crashed, queue_mutex, max_task_count,
                  worker_list, zombie_workers, terminating_flag, busy_thread_count,
                  core_thread_count, max_thread_count, monitor, w_status, w_task,
                  idle_expired, created, sub, sd, admitted, done, pause_mark, last,
                  handle >>

\* Phase 2: the worker takes the queue lock (first entry, or on return from
\* wait) and evaluates the predicate of its wait loop.
WorkerLockQueue(w) ==
  /\ w_pc[w] = "lock"
  /\ queue_mutex = 0
  /\ queue_mutex' = w
  /\ w_pc' = [w_pc EXCEPT ![w] = IF isWake(w) THEN "recheck" ELSE "towait"]
  /\ UNCHANGED << status, task_queue, underflow, crashed, max_task_count,
                  worker_list, zombie_workers, terminating_flag, busy_thread_count,
                  core_thread_count, max_thread_count, monitor, w_status, pause_sem,
                  w_task, idle_expired, created, sub, sd, admitted, done, pause_mark,
                  last, handle >>

\* m_task_queue_cv.wait(queue_lock): releases the queue lock and blocks.
WorkerWait(w) ==
  /\ w_pc[w] = "towait"
  /\ queue_mutex' = 0
  /\ w_pc' = [w_pc EXCEPT ![w] = "waiting"]
  /\ UNCHANGED << status, task_queue, underflow, crashed, max_task_count,
                  worker_list, zombie_workers, terminating_flag, busy_thread_count,
                  core_thread_count, max_thread_count, monitor, w_status, pause_sem,
                  w_task, idle_expired, created, sub, sd, admitted, done, pause_mark,
                  last, handle >>

\* A condition variable may return from wait() without a notification.
WorkerSpuriousWake(w) ==
  /\ w_pc[w] = "waiting"
  /\ w_pc' = [w_pc EXCEPT ![w] = "lock"]
  /\ UNCHANGED << status, task_queue, underflow, crashed, queue_mutex, max_task_count,
                  worker_list, zombie_workers, terminating_flag, busy_thread_count,
                  core_thread_count, max_thread_count, monitor, w_status, pause_sem,
                  w_task, idle_expired, created, sub, sd, admitted, done, pause_mark,
                  last, handle >>

\* "1.": the worker reads its status again; not RUNNING restarts the loop.
WorkerRecheckStatus(w) ==
  /\ w_pc[w] = "recheck"
  /\ IF w_status[w] # "RUNNING"
       THEN /\ w_pc' = [w_pc EXCEPT ![w] = "start"]
            /\ queue_mutex' = 0
       ELSE /\ w_pc' = [w_pc EXCEPT ![w] = "pop"]
            /\ UNCHANGED queue_mutex
  /\ UNCHANGED << status, task_queue, underflow, crashed, max_task_count,
                  worker_list, zombie_workers, terminating_flag, busy_thread_count,
                  core_thread_count, max_thread_count, monitor, w_status, pause_sem,
                  w_task, idle_expired, created, sub, sd, admitted, done, pause_mark,
                  last, handle >>

\* "2." and "3.": terminating and empty marks the worker TERMINATING; otherwise
\* front() and pop(), whatever the queue holds.  On the empty queue both are
\* undefined: the process dies, or front() yields an object that is no
\* submitted task (executing it does nothing) and pop() moves the begin
\* pointer past the end pointer.
WorkerTakeTask(w) ==
  /\ w_pc[w] = "pop"
  /\ queue_mutex' = 0
  /\ IF terminating_flag /\ QueueEmpty
       THEN /\ w_status' = [w_status EXCEPT ![w] = "TERMINATING"]
            /\ w_pc' = [w_pc EXCEPT ![w] = "start"]
            /\ UNCHANGED << task_queue, underflow, crashed, w_task >>
       ELSE IF task_queue # << >>
         THEN /\ w_task' = [w_task EXCEPT ![w] = QueueFront(task_queue)]
              /\ task_queue' = Tail(task_queue)
              /\ w_pc' = [w_pc EXCEPT ![w] = "run"]
              /\ UNCHANGED << w_status, underflow, crashed >>
         ELSE \/ /\ crashed' = TRUE
                 /\ UNCHANGED << w_status, w_pc, task_queue, underflow, w_task >>
              \/ /\ underflow < MaxUnderflow
                 /\ underflow' = underflow + 1
                 /\ w_task' = [w_task EXCEPT ![w] = NoTask]
                 /\ w_pc' = [w_pc EXCEPT ![w] = "run"]
                 /\ UNCHANGED << w_status, task_queue, crashed >>
  /\ UNCHANGED << status, max_task_count, worker_list, zombie_workers,
                  terminating_flag, busy_thread_count, core_thread_count,
                  max_thread_count, monitor, pause_sem, idle_expired, created, sub,
                  sd, admitted, done, pause_mark, last, handle >>

\* Phase 3 begins: m_busy_thread_count.fetch_add(1).
WorkerBeginTask(w) ==
  /\ w_pc[w] = "run"
  /\ busy_thread_count' = busy_thread_count + 1
  /\ w_pc' = [w_pc EXCEPT ![w] = "exec"]
  /\ UNCHANGED << status, task_queue, underflow, crashed, queue_mutex, max_task_count,
                  worker_list, zombie_workers, terminating_flag, core_thread_count,
                  max_thread_count, monitor, w_status, pause_sem, w_task,
                  idle_expired, created, sub, sd, admitted, done, pause_mark, last,
                  handle >>

\* A worker loop with neither the packaged task nor the try block around
\* task(): the exception of a throwing callable leaves run() and ends the process.
WorkerFinishTaskUncaught(w) ==
  /\ w_pc[w] = "exec"
  /\ IF w_task[w] # NoTask /\ w_task[w] % 2 = 1
       THEN /\ crashed' = TRUE
            /\ w_pc' = [w_pc EXCEPT ![w] = "none"]
            /\ UNCHANGED << done, handle, busy_thread_count, w_task >>
       ELSE /\ done' = IF w_task[w] = NoTask THEN done
                       ELSE [done EXCEPT ![w_task[w]] = Min(done[w_task[w]] + 1, 2)]
            /\ handle' = IF w_task[w] = NoTask THEN handle
                         ELSE [handle EXCEPT ![w_task[w]] = "value"]
            /\ busy_thread_count' = busy_thread_count - 1
            /\ w_task' = [w_task EXCEPT ![w] = NoTask]
            /\ w_pc' = [w_pc EXCEPT ![w] = "post"]
            /\ UNCHANGED crashed
  /\ UNCHANGED << status, task_queue, underflow, queue_mutex, max_task_count,
                  worker_list, zombie_workers, terminating_flag, core_thread_count,
                  max_thread_count, monitor, w_status, pause_sem, idle_expired,
                  created, sub, sd, admitted, pause_mark, last >>

\* The submitted callables that throw: every other one, the first included.
ThrowingTasks == { t \in Tasks : t % 2 = 1 }

\* (*task_ptr)(): std::packaged_task runs the callable and stores its return
\* value or the exception it threw in the state shared with the future.
TaskResult(t) == IF t \in ThrowingTasks THEN "exception" ELSE "value"

\* task() returns: the packaged task has stored the callable's outcome and
\* lets no exception out; m_busy_thread_count.fetch_sub(1).
WorkerFinishTask(w) ==
  /\ w_pc[w] = "exec"
  /\ done' = IF w_task[w] = NoTask THEN done
             ELSE [done EXCEPT ![w_task[w]] = Min(done[w_task[w]] + 1, 2)]
  /\ handle' = IF w_task[w] = NoTask THEN handle
               ELSE [handle EXCEPT ![w_task[w]] = TaskResult(w_task[w])]
  /\ busy_thread_count' = busy_thread_count - 1
  /\ w_task' = [w_task EXCEPT ![w] = NoTask]
  /\ w_pc' = [w_pc EXCEPT ![w] = "post"]
  /\ UNCHANGED << status, task_queue, underflow, crashed, queue_mutex, max_task_count,
                  worker_list, zombie_workers, terminating_flag, core_thread_count,
                  max_thread_count, monitor, w_status, pause_sem, idle_expired,
                  created, sub, sd, admitted, pause_mark, last >>

\* m_last_active_time.store(now): the worker's idle time starts again at zero.
WorkerStoreLastActive(w) ==
  /\ w_pc[w] = "post"
  /\ idle_expired' = [idle_expired EXCEPT ![w] = FALSE]
  /\ w_pc' = [w_pc EXCEPT ![w] = "start"]
  /\ UNCHANGED << status, task_queue, underflow, crashed, queue_mutex, max_task_count,
                  worker_list, zombie_workers, terminating_flag, busy_thread_count,
                  core_thread_count, max_thread_count, monitor, w_status, pause_sem,
                  w_task, created, sub, sd, admitted, done, pause_mark, last,
                  handle >>

\* The steady clock advances: a worker's idle time reaches m_keep_alive_time.
TimePasses(w) ==
  /\ w_pc[w] \notin {"none", "exited"}
  /\ ~idle_expired[w]
  /\ idle_expired' = [idle_expired EXCEPT ![w] = TRUE]
  /\ UNCHANGED << status, task_queue, underflow, crashed, queue_mutex, max_task_count,
                  worker_list, zombie_workers, terminating_flag, busy_thread_count,
                  core_thread_count, max_thread_count, monitor, w_status, w_pc,
                  pause_sem, w_task, created, sub, sd, admitted, done, pause_mark,
                  last, handle >>

----------------------------------------------------------------------------
\* WorkerThread::pause, resume and terminate applied to a set of workers.

PausedStatus(ws) ==
  [w \in Workers |-> IF w \in ws /\ w_status[w] = "RUNNING" THEN "PAUSED" ELSE w_status[w]]

ResumedStatus(ws) ==
  [w \in Workers |-> IF w \in ws /\ w_status[w] = "PAUSED" THEN "RUNNING" ELSE w_status[w]]

\* BinarySemaphore::release for every worker of ws that is PAUSED.
ReleasedSem(ws) ==
  [w \in Workers |-> IF w \in ws /\ w_status[w] = "PAUSED" THEN TRUE ELSE pause_sem[w]]

TerminatedStatus(ws) ==
  [w \in Workers |-> IF w \in ws /\ w_status[w] \in {"RUNNING", "PAUSED"}
                       THEN "TERMINATING" ELSE w_status[w]]

----------------------------------------------------------------------------
\* Public methods of ThreadPool.

\* pause() without its test of the status.
PauseUnchecked ==
  /\ StatusMutexFree
  /\ last' = "ok"
  /\ status' = "PAUSED"
  /\ w_status' = PausedStatus(Range(worker_list))
  /\ w_pc' = NotifyAll(w_pc)
  /\ pause_mark' = admitted
  /\ UNCHANGED << task_queue, underflow, crashed, queue_mutex, max_task_count,
                  worker_list, zombie_workers, terminating_flag, busy_thread_count,
                  core_thread_count, max_thread_count, monitor, pause_sem, w_task,
                  idle_expired, created, sub, sd, admitted, done, handle >>

\* ThreadPool::pause
Pause ==
  /\ StatusMutexFree
  /\ last' = "ok"
  /\ IF status = "RUNNING"
       THEN /\ status' = "PAUSED"
            /\ w_status' = PausedStatus(Range(worker_list))
            /\ w_pc' = NotifyAll(w_pc)
            /\ pause_mark' = admitted
       ELSE UNCHANGED << status, w_status, w_pc, pause_mark >>
  /\ UNCHANGED << task_queue, underflow, crashed, queue_mutex, max_task_count,
                  worker_list, zombie_workers, terminating_flag, busy_thread_count,
                  core_thread_count, max_thread_count, monitor, pause_sem, w_task,
                  idle_expired, created, sub, sd, admitted, done, handle >>

\* ThreadPool::resumeWithoutStatusLock
resumeWithoutStatusLock ==
  IF status = "PAUSED"
    THEN /\ status' = "RUNNING"
         /\ w_status' = ResumedStatus(Range(worker_list))
         /\ pause_sem' = ReleasedSem(Range(worker_list))
         /\ w_pc' = NotifyAll(w_pc)
         /\ pause_mark' = 0
    ELSE UNCHANGED << status, w_status, pause_sem, w_pc, pause_mark >>

\* ThreadPool::resume
Resume ==
  /\ StatusMutexFree
  /\ last' = "ok"
  /\ resumeWithoutStatusLock
  /\ UNCHANGED << task_queue, underflow, crashed, queue_mutex, max_task_count,
                  worker_list, zombie_workers, terminating_flag, busy_thread_count,
                  core_thread_count, max_thread_count, monitor, w_task, idle_expired,
                  created, sub, sd, admitted, done, handle >>

\* shutdown() whose case PAUSED stores SHUTDOWN without resuming the pool first.
ShutdownCallNoResume ==
  /\ StatusMutexFree
  /\ IF status \in {"PAUSED", "RUNNING"}
       THEN /\ status' = "SHUTDOWN"
            /\ sd' = "drain"
            /\ UNCHANGED last
       ELSE /\ last' = "shutdown_returned"
            /\ UNCHANGED << status, sd >>
  /\ UNCHANGED << task_queue, underflow, crashed, queue_mutex, max_task_count,
                  worker_list, zombie_workers, terminating_flag, busy_thread_count,
                  core_thread_count, max_thread_count, monitor, w_status, w_pc,
                  pause_sem, w_task, idle_expired, created, sub, admitted, done,
                  pause_mark, handle >>

\* ThreadPool::shutdown, first phase, entered from any status.  A PAUSED pool
\* is resumed first and the call keeps m_status_mutex for its next step; any
\* status other than RUNNING and PAUSED returns at once.
ShutdownCall ==
  /\ StatusMutexFree
  /\ CASE status = "PAUSED" ->
            /\ resumeWithoutStatusLock
            /\ sd' = "resumed"
            /\ UNCHANGED last
       [] status = "RUNNING" ->
            /\ status' = "SHUTDOWN"
            /\ sd' = "drain"
            /\ UNCHANGED << w_status, pause_sem, w_pc, pause_mark, last >>
       [] OTHER ->
            /\ last' = "shutdown_returned"
            /\ UNCHANGED << status, sd, w_status, pause_sem, w_pc, pause_mark >>
  /\ UNCHANGED << task_queue, underflow, crashed, queue_mutex, max_task_count,
                  worker_list, zombie_workers, terminating_flag, busy_thread_count,
                  core_thread_count, max_thread_count, monitor, w_task, idle_expired,
                  created, sub, admitted, done, handle >>

\* ThreadPool::shutdown on a pool it has just resumed: case RUNNING of the switch.
ShutdownAfterResume ==
  /\ sd = "resumed"
  /\ status' = "SHUTDOWN"
  /\ sd' = "drain"
  /\ UNCHANGED << task_queue, underflow, crashed, queue_mutex, max_task_count,
                  worker_list, zombie_workers, terminating_flag, busy_thread_count,
                  core_thread_count, max_thread_count, monitor, w_status, w_pc,
                  pause_sem, w_task, idle_expired, created, sub, admitted, done,
                  pause_mark, last, handle >>

\* ThreadPool::shutdown, second phase: the call takes the queue lock, waits on
\* m_task_queue_empty_cv until it sees the queue empty and releases the lock.
ShutdownDrained ==
  /\ sd = "drain"
  /\ queue_mutex = 0
  /\ QueueEmpty
  /\ sd' = "terminate"
  /\ UNCHANGED << status, task_queue, underflow, crashed, queue_mutex, max_task_count,
                  worker_list, zombie_workers, terminating_flag, busy_thread_count,
                  core_thread_count, max_thread_count, monitor, w_status, w_pc,
                  pause_sem, w_task, idle_expired, created, sub, admitted, done,
                  pause_mark, last, handle >>

\* ThreadPool::shutdown, third phase: the status and the terminating flag are
\* stored and the task condition is notified, none of it under the queue lock.
ShutdownTerminate ==
  /\ sd = "terminate"
  /\ status' = "TERMINATING"
  /\ terminating_flag' = TRUE
  /\ w_pc' = NotifyAll(w_pc)
  /\ sd' = "notify_again"
  /\ UNCHANGED << task_queue, underflow, crashed, queue_mutex, max_task_count,
                  worker_list, zombie_workers, busy_thread_count, core_thread_count,
                  max_thread_count, monitor, w_status, pause_sem, w_task,
                  idle_expired, created, sub, admitted, done, pause_mark, last,
                  handle >>

\* The second m_task_queue_cv.notify_all(), made before m_worker_list is cleared.
ShutdownNotifyAgain ==
  /\ sd = "notify_again"
  /\ w_pc' = NotifyAll(w_pc)
  /\ sd' = "join_workers"
  /\ UNCHANGED << status, task_queue, underflow, crashed, queue_mutex, max_task_count,
                  worker_list, zombie_workers, terminating_flag, busy_thread_count,
                  core_thread_count, max_thread_count, monitor, w_status, pause_sem,
                  w_task, idle_expired, created, sub, admitted, done, pause_mark,
                  last, handle >>

\* m_worker_list.clear(): ~WorkerThread joins each worker's thread.
ShutdownJoinWorkers ==
  /\ sd = "join_workers"
  /\ \A w \in Range(worker_list) : w_pc[w] = "exited"
  /\ worker_list' = << >>
  /\ sd' = "join_zombies"
  /\ UNCHANGED << status, task_queue, underflow, crashed, queue_mutex, max_task_count,
                  zombie_workers, terminating_flag, busy_thread_count,
                  core_thread_count, max_thread_count, monitor, w_status, w_pc,
                  pause_sem, w_task, idle_expired, created, sub, admitted, done,
                  pause_mark, last, handle >>

\* m_zombie_workers.clear()
ShutdownJoinZombies ==
  /\ sd = "join_zombies"
  /\ \A w \in Range(zombie_workers) : w_pc[w] = "exited"
  /\ zombie_workers' = << >>
  /\ sd' = "join_monitor"
  /\ UNCHANGED << status, task_queue, underflow, crashed, queue_mutex, max_task_count,
                  worker_list, terminating_flag, busy_thread_count,
                  core_thread_count, max_thread_count, monitor, w_status, w_pc,
                  pause_sem, w_task, idle_expired, created, sub, admitted, done,
                  pause_mark, last, handle >>

\* m_monitor_thread.join() if joinable, then the store of TERMINATED; the call returns.
ShutdownFinish ==
  /\ sd = "join_monitor"
  /\ monitor # "run"
  /\ status' = "TERMINATED"
  /\ sd' = "done"
  /\ last' = "shutdown_returned"
  /\ UNCHANGED << task_queue, underflow, crashed, queue_mutex, max_task_count,
                  worker_list, zombie_workers, terminating_flag, busy_thread_count,
                  core_thread_count, max_thread_count, monitor, w_status, w_pc,
                  pause_sem, w_task, idle_expired, created, sub, admitted, done,
                  pause_mark, handle >>

\* ThreadPool::isTaskQueueFull
isTaskQueueFull == max_task_count # 0 /\ QueueSizeAtLeast(max_task_count)

\* m_task_queue_cv.notify_one(): one thread blocked in wait(), if there is
\* one, returns to reacquire the queue lock.
NotifyOne ==
  IF \E w \in Workers : w_pc[w] = "waiting"
    THEN \E w \in Workers : /\ w_pc[w] = "waiting"
                            /\ w_pc' = [w_pc EXCEPT ![w] = "lock"]
    ELSE UNCHANGED w_pc

\* ThreadPool::submit up to its admission: the status check and isTaskQueueFull
\* (which takes the queue lock when max_task_count is not 0).
SubmitCheck ==
  /\ StatusMutexFree
  /\ IF status \notin OpenStatus
       THEN /\ last' = "cannot_submit"
            /\ UNCHANGED sub
       ELSE /\ max_task_count # 0 => queue_mutex = 0
            /\ IF isTaskQueueFull
                 THEN /\ last' = "queue_full"
                      /\ UNCHANGED sub
                 ELSE /\ admitted < MaxTasks
                      /\ sub' = TRUE
                      /\ UNCHANGED last
  /\ UNCHANGED << status, task_queue, underflow, crashed, queue_mutex, max_task_count,
                  worker_list, zombie_workers, terminating_flag, busy_thread_count,
                  core_thread_count, max_thread_count, monitor, w_status, w_pc,
                  pause_sem, w_task, idle_expired, created, sd, admitted, done,
                  pause_mark, handle >>

\* m_task_queue.emplace(task): the task goes to the end pointer, which then
\* advances.  While the begin pointer is past the end pointer the new task
\* lies before the begin pointer, where no pop reaches it.
Emplaced(q, t) == Append(q, t)

\* ThreadPool::submit from the emplace to the return of the future.
SubmitEnqueue ==
  /\ sub
  /\ queue_mutex = 0
  /\ IF underflow > 0
       THEN /\ underflow' = underflow - 1
            /\ UNCHANGED task_queue
       ELSE /\ task_queue' = Emplaced(task_queue, admitted + 1)
            /\ UNCHANGED underflow
  /\ admitted' = admitted + 1
  /\ NotifyOne
  /\ sub' = FALSE
  /\ last' = "ok"
  /\ UNCHANGED << status, crashed, queue_mutex, max_task_count, worker_list,
                  zombie_workers, terminating_flag, busy_thread_count,
                  core_thread_count, max_thread_count, monitor, w_status,
                  pause_sem, w_task, idle_expired, created, sd, done, pause_mark,
                  handle >>

\* ThreadPool::setMaxTaskCount: an atomic store, under no lock.
SetMaxTaskCount(n) ==
  /\ max_task_count' = n
  /\ last' = "ok"
  /\ UNCHANGED << status, task_queue, underflow, crashed, queue_mutex, worker_list,
                  zombie_workers, terminating_flag, busy_thread_count,
                  core_thread_count, max_thread_count, monitor, w_status, w_pc,
                  pause_sem, w_task, idle_expired, created, sub, sd, admitted, done,
                  pause_mark, handle >>

\* ThreadPool::increaseThreadCountWithoutStatusLock past its status check: n
\* WorkerThread objects are constructed (status RUNNING, semaphore not
\* available, last active time now - keep_alive) at the end of m_worker_list.
SpawnWorkers(n) ==
  /\ worker_list' = worker_list \o [i \in 1..n |-> created + i]
  /\ w_pc' = [w \in Workers |-> IF w \in (created + 1)..(created + n) THEN "start" ELSE w_pc[w]]
  /\ created' = created + n

\* decreaseThreadCount taking the workers it retires from the head of the list.
RetireWorkersFromHead(n) ==
  LET k == Min(n, Len(worker_list))
      keep == SubSeq(worker_list, k + 1, Len(worker_list))
      gone == SubSeq(worker_list, 1, k)
  IN /\ worker_list' = keep
     /\ zombie_workers' = zombie_workers \o gone
     /\ w_status' = TerminatedStatus(Range(gone))
     /\ pause_sem' = ReleasedSem(Range(gone))
     /\ w_pc' = IF k # 0 THEN NotifyAll(w_pc) ELSE w_pc

\* ThreadPool::decreaseThreadCountWithoutStatusLock past its status check: the
\* last min(n, size) workers are terminated and spliced to the zombie list.
RetireWorkers(n) ==
  LET k == Min(n, Len(worker_list))
      keep == SubSeq(worker_list, 1, Len(worker_list) - k)
      gone == SubSeq(worker_list, Len(worker_list) - k + 1, Len(worker_list))
  IN /\ worker_list' = keep
     /\ zombie_workers' = zombie_workers \o gone
     /\ w_status' = TerminatedStatus(Range(gone))
     /\ pause_sem' = ReleasedSem(Range(gone))
     /\ w_pc' = IF k # 0 THEN NotifyAll(w_pc) ELSE w_pc

\* ThreadPool::increaseThreadCount
IncreaseThreadCount(n) ==
  /\ StatusMutexFree
  /\ IF status \notin OpenStatus
       THEN /\ last' = "bad_state"
            /\ UNCHANGED << worker_list, w_pc, created >>
       ELSE /\ created + n <= MaxWorkers
            /\ SpawnWorkers(n)
            /\ last' = "ok"
  /\ UNCHANGED << status, task_queue, underflow, crashed, queue_mutex, max_task_count,
                  zombie_workers, terminating_flag, busy_thread_count,
                  core_thread_count, max_thread_count, monitor, w_status, pause_sem,
                  w_task, idle_expired, sub, sd, admitted, done, pause_mark,
                  handle >>

\* ThreadPool::decreaseThreadCount
DecreaseThreadCount(n) ==
  /\ StatusMutexFree
  /\ IF status \notin OpenStatus
       THEN /\ last' = "bad_state"
            /\ UNCHANGED << worker_list, zombie_workers, w_status, pause_sem, w_pc >>
       ELSE /\ RetireWorkers(n)
            /\ last' = "ok"
  /\ UNCHANGED << status, task_queue, underflow, crashed, queue_mutex, max_task_count,
                  terminating_flag, busy_thread_count, core_thread_count,
                  max_thread_count, monitor, w_task, idle_expired, created, sub, sd,
                  admitted, done, pause_mark, handle >>

----------------------------------------------------------------------------
\* The monitor thread.

\* A count of the timed-out workers that looks at the whole list.
TimedOutCountAll ==
  Cardinality({ i \in 1..Len(worker_list) : idle_expired[worker_list[i]] })

\* The workers adjustThreadCount counts as timed out: among the last
\* (size - core) entries of m_worker_list, those idle for keep_alive or more.
TimedOutCount ==
  LET n == Len(worker_list)
  IN Cardinality({ i \in (core_thread_count + 1)..n : idle_expired[worker_list[i]] })

\* adjustThreadCount without its grow branch.
adjustThreadCountShrinkOnly ==
  /\ StatusMutexFree
  /\ queue_mutex = 0
  /\ LET current_threads == Len(worker_list)
     IN IF /\ status \in OpenStatus
           /\ current_threads > core_thread_count
           /\ busy_thread_count < current_threads
           /\ TimedOutCount > 0
          THEN /\ RetireWorkers(TimedOutCount)
               /\ UNCHANGED created
          ELSE UNCHANGED << worker_list, zombie_workers, w_status,
                            pause_sem, w_pc, created >>

\* adjustThreadCount without its return for a status other than RUNNING and
\* PAUSED.
adjustThreadCountAnyStatus ==
  /\ StatusMutexFree
  /\ queue_mutex = 0
  /\ LET current_threads == Len(worker_list)
     IN IF /\ status = "RUNNING"
           /\ busy_thread_count = current_threads
           /\ QueueSizeAtLeast(1)
           /\ current_threads < max_thread_count
          THEN /\ created + 1 <= MaxWorkers
               /\ SpawnWorkers(1)
               /\ UNCHANGED << zombie_workers, w_status, pause_sem >>
          ELSE IF /\ current_threads > core_thread_count
                  /\ busy_thread_count < current_threads
                  /\ TimedOutCount > 0
                 THEN /\ RetireWorkers(TimedOutCount)
                      /\ UNCHANGED created
                 ELSE UNCHANGED << worker_list, zombie_workers, w_status,
                                   pause_sem, w_pc, created >>

\* ThreadPool::adjustThreadCount
adjustThreadCount ==
  /\ StatusMutexFree
  /\ queue_mutex = 0
  /\ LET current_threads == Len(worker_list)
     IN IF status \notin OpenStatus
          THEN UNCHANGED << worker_list, zombie_workers, w_status, pause_sem, w_pc, created >>
          ELSE IF /\ status = "RUNNING"
                  /\ busy_thread_count = current_threads
                  /\ QueueSizeAtLeast(1)
                  /\ current_threads < max_thread_count
                 THEN /\ created + 1 <= MaxWorkers
                      /\ SpawnWorkers(1)
                      /\ UNCHANGED << zombie_workers, w_status, pause_sem >>
                 ELSE IF /\ current_threads > core_thread_count
                         /\ busy_thread_count < current_threads
                         /\ TimedOutCount > 0
                        THEN /\ RetireWorkers(TimedOutCount)
                             /\ UNCHANGED created
                        ELSE UNCHANGED << worker_list, zombie_workers, w_status,
                                          pause_sem, w_pc, created >>

\* ThreadPool::monitorLoop: one round of the loop.  The flag is read at the top
\* of the loop and again by the predicate of the timed wait; seen set, the
\* thread leaves the loop, otherwise it calls adjustThreadCount.
MonitorTick ==
  /\ monitor = "run"
  /\ IF terminating_flag
       THEN /\ monitor' = "exited"
            /\ UNCHANGED << worker_list, zombie_workers, w_status, pause_sem, w_pc, created >>
       ELSE /\ adjustThreadCount
            /\ UNCHANGED monitor
  /\ UNCHANGED << status, task_queue, underflow, crashed, queue_mutex, max_task_count,
                  terminating_flag, busy_thread_count, core_thread_count,
                  max_thread_count, w_task, idle_expired, sub, sd, admitted, done,
                  pause_mark, last, handle >>

----------------------------------------------------------------------------
\* The "threadpool" configuration variable and the listener of the pool.

\* What the configuration steps leave alone in the pool.
poolRest == << status, task_queue, underflow, crashed, queue_mutex, worker_list,
               zombie_workers, terminating_flag, busy_thread_count, monitor,
               w_status, w_pc, pause_sem, w_task, idle_expired, created, sub, sd,
               admitted, done, handle, pause_mark, last >>

\* ThreadPoolConfig::operator==: the five capacity members are compared,
\* enable_dynamic_scaling is not.
ConfigEq(a, b) == \A f \in ConfigFields : a[f] = b[f]

\* ThreadPool::getThreadPoolConfig
getThreadPoolConfig ==
  [max_task_count |-> max_task_count,
   core_thread_count |-> core_thread_count,
   max_thread_count |-> max_thread_count,
   keep_alive_time |-> keep_alive_time,
   monitor_interval |-> monitor_interval,
   enable_dynamic_scaling |-> DefaultEnableDynamicScaling]

\* The listener the constructor adds to the variable: a member of the pool is
\* stored where the old and the new value of the variable differ.
OnThreadPoolConfChanged(old_value, new_value) ==
  /\ max_task_count' = IF old_value.max_task_count # new_value.max_task_count
                         THEN new_value.max_task_count ELSE max_task_count
  /\ core_thread_count' = IF old_value.core_thread_count # new_value.core_thread_count
                            THEN new_value.core_thread_count ELSE core_thread_count
  /\ max_thread_count' = IF old_value.max_thread_count # new_value.max_thread_count
                           THEN new_value.max_thread_count ELSE max_thread_count
  /\ keep_alive_time' = IF old_value.keep_alive_time # new_value.keep_alive_time
                          THEN new_value.keep_alive_time ELSE keep_alive_time
  /\ monitor_interval' = IF old_value.monitor_interval # new_value.monitor_interval
                           THEN new_value.monitor_interval ELSE monitor_interval

\* ConfigVar<ThreadPoolConfig>::setValue
setValue(value) ==
  IF ConfigEq(value, cfg)
    THEN UNCHANGED << cfg, max_task_count, core_thread_count, max_thread_count,
                      keep_alive_time, monitor_interval >>
    ELSE /\ cfg' = value
         /\ OnThreadPoolConfChanged(cfg, value)

\* A converter that starts from the value the variable holds.
FromStrKeepingPrior(node) ==
  [f \in DOMAIN DefaultConfig |-> IF f \in DOMAIN node THEN node[f] ELSE cfg[f]]

\* TypeConverter<std::string, ThreadPoolConfig>: a default-constructed
\* ThreadPoolConfig in which the members the YAML node defines are overwritten.
\* A node is the map from the keys it defines to their values.
FromStr(node) ==
  [f \in DOMAIN DefaultConfig |-> IF f \in DOMAIN node THEN node[f] ELSE DefaultConfig[f]]

\* A call of setValue on the variable from the program.
SetThreadPoolConfig(value) ==
  /\ setValue(value)
  /\ loaded' = << >>
  /\ omitted_changed' = {}
  /\ UNCHANGED << poolRest, monitor_did >>

\* Config::loadFromYaml reaching the key "threadpool": ConfigVar::fromString
\* converts the node and hands the result to setValue.
LoadThreadPoolYaml(node) ==
  /\ setValue(FromStr(node))
  /\ loaded' = << node >>
  /\ omitted_changed' =
       IF ConfigEq(FromStr(node), cfg) THEN {}
       ELSE { f \in ConfigFields \ DOMAIN node : FromStr(node)[f] # cfg[f] }
  /\ UNCHANGED << poolRest, monitor_did >>

\* The values a configuration member takes in the model.
FieldValues ==
  [max_task_count |-> 0..MaxCap,
   core_thread_count |-> {DefaultCoreThreadCount, MaxWorkers},
   max_thread_count |-> {MaxWorkers, DefaultMaxThreadCount},
   keep_alive_time |-> {DefaultKeepAliveTime, DefaultKeepAliveTime + 1000},
   monitor_interval |-> {DefaultMonitorInterval, DefaultMonitorInterval + 100}]

\* The configurations a pool is built with and the variable is set to.
ConfigValues ==
  { [max_task_count |-> a, core_thread_count |-> b, max_thread_count |-> c,
     keep_alive_time |-> d, monitor_interval |-> e, enable_dynamic_scaling |-> g] :
      a \in FieldValues.max_task_count, b \in FieldValues.core_thread_count,
      c \in FieldValues.max_thread_count, d \in FieldValues.keep_alive_time,
      e \in FieldValues.monitor_interval, g \in BOOLEAN }

\* The "threadpool" nodes of the loaded files: any subset of the five keys.
YamlRecords ==
  UNION { { node \in [present -> UNION { FieldValues[f] : f \in ConfigFields }] :
              \A f \in present : node[f] \in FieldValues[f] } :
          present \in SUBSET ConfigFields }

\* A pool built with any configuration; the variable then gets new values from
\* the program and from loaded files, and setMaxTaskCount is called.
CfgInit ==
  /\ \E config \in ConfigValues : Constructed(config)
  /\ ThreadPoolVarCreated
  /\ RegistryEmpty
  /\ VarCreated
  /\ NothingLoaded
  /\ NoLockHeld
  /\ NoKeyIssued
  /\ PoolAlive
  /\ NothingConverted

CfgNext ==
  /\ UNCHANGED << regVars, varVars, loadVars, codecVars, lockVars, idVars, lifeVars >>
  /\ \/ \E value \in { c \in ConfigValues : c.enable_dynamic_scaling } :
          SetThreadPoolConfig(value)
     \/ \E node \in YamlRecords : LoadThreadPoolYaml(node)
     \/ \E n \in 0..MaxCap : SetMaxTaskCount(n) /\ UNCHANGED cfgVars

CfgSpec == CfgInit /\ [][CfgNext]_vars

----------------------------------------------------------------------------
\* The registry of configuration variables (Config in config.hpp).

\* Every variable of the pool.
poolVars == << poolRest, max_task_count, core_thread_count, max_thread_count >>

\* Characters of the names given to the registry, as their char values:
\* '-', '.', '0', 'A', '_', 'a'.
NameChars == {45, 46, 48, 65, 95, 97}

\* The names given to the registry: every string of at most MaxNameLen characters.
Names == UNION { [1..n -> NameChars] : n \in 0..MaxNameLen }

\* The template arguments the registry functions are called with.
Types == {"int", "string"}

\* Values and descriptions given to a variable.
Values == {0, 1}
Descriptions == {"first", "second"}

\* util::isValidName accepting upper-case letters as well.
isValidNameAnyCase(name) ==
  /\ name # << >>
  /\ \A i \in 1..Len(name) :
       \/ (name[i] >= 97 /\ name[i] <= 122)
       \/ (name[i] >= 65 /\ name[i] <= 90)
       \/ (name[i] >= 48 /\ name[i] <= 57)
       \/ name[i] = 46
       \/ name[i] = 95

\* util::isValidName: the name is not empty and each character is in 'a'..'z',
\* in '0'..'9', '.' or '_'.
isValidName(name) ==
  /\ name # << >>
  /\ \A i \in 1..Len(name) :
       \/ (name[i] >= 97 /\ name[i] <= 122)
       \/ (name[i] >= 48 /\ name[i] <= 57)
       \/ name[i] = 46
       \/ name[i] = 95

\* A lookup whose cast to ConfigVar<T> succeeds for every T.
CastToAnyType(var, T) == TRUE

\* std::dynamic_pointer_cast<ConfigVar<T>>(it->second) gives a pointer that is
\* not null exactly when the object was created as a ConfigVar<T>.
CastTo(var, T) == var.type = T

\* Config::getOrCreateConfigVarPtr<T>(name, default_value, description)
GetOrCreateConfigVarPtr(name, T, default_value, description) ==
  /\ reg_call' = [op |-> "getOrCreate", name |-> name, type |-> T]
  /\ IF name \in DOMAIN registry
       THEN /\ reg_result' = IF CastTo(registry[name], T)
                               THEN [kind |-> "var", id |-> registry[name].id]
                               ELSE [kind |-> "null", id |-> 0]
            /\ UNCHANGED << registry, reg_created >>
       ELSE IF ~isValidName(name)
              THEN /\ reg_result' = [kind |-> "invalid_argument", id |-> 0]
                   /\ UNCHANGED << registry, reg_created >>
              ELSE /\ Cardinality(DOMAIN registry) < MaxVars
                   /\ reg_created < MaxCreated
                   /\ reg_created' = reg_created + 1
                   /\ registry' = [n \in DOMAIN registry \cup {name} |->
                                     IF n = name
                                       THEN [id |-> reg_created + 1, type |-> T,
                                             val |-> default_value,
                                             description |-> description]
                                       ELSE registry[n]]
                   /\ reg_result' = [kind |-> "var", id |-> reg_created + 1]

\* Config::getConfigVarPtr<T>(name)
GetConfigVarPtr(name, T) ==
  /\ reg_call' = [op |-> "get", name |-> name, type |-> T]
  /\ reg_result' = IF name \notin DOMAIN registry
                      THEN [kind |-> "null", id |-> 0]
                      ELSE IF CastTo(registry[name], T)
                             THEN [kind |-> "var", id |-> registry[name].id]
                             ELSE [kind |-> "null", id |-> 0]
  /\ UNCHANGED << registry, reg_created >>

\* ConfigVar::setValue through a pointer the registry returned.
SetRegisteredValue(name, value) ==
  /\ name \in DOMAIN registry
  /\ registry' = [registry EXCEPT ![name].val = value]
  /\ reg_call' = [op |-> "setValue", name |-> name, type |-> registry[name].type]
  /\ reg_result' = [kind |-> "none", id |-> 0]
  /\ UNCHANGED reg_created

\* Config::clearAllData
ClearAllData ==
  /\ registry' = << >>
  /\ reg_call' = [op |-> "clearAllData", name |-> << >>, type |-> "none"]
  /\ reg_result' = [kind |-> "none", id |-> 0]
  /\ UNCHANGED reg_created

RegNext ==
  /\ UNCHANGED << poolVars, cfgVars, varVars, loadVars, codecVars, lockVars, idVars, lifeVars >>
  /\ \/ \E name \in Names, T \in Types, value \in Values, description \in Descriptions :
          GetOrCreateConfigVarPtr(name, T, value, description)
     \/ \E name \in Names, T \in Types : GetConfigVarPtr(name, T)
     \/ \E name \in Names, value \in Values : SetRegisteredValue(name, value)
     \/ ClearAllData

RegSpec == Init /\ [][RegNext]_vars

----------------------------------------------------------------------------
\* One configuration variable and its listeners (ConfigVar in config.hpp).

\* The orders in which a loop over a std::unordered_map can visit its keys:
\* the standard leaves the order to the implementation.
IterationOrders(keys) ==
  { order \in [1..Cardinality(keys) -> keys] :
      \A i, j \in 1..Cardinality(keys) : i # j => order[i] # order[j] }

\* A setValue that calls the listeners without comparing the values.
SetValueUncompared(value) ==
  /\ m_val' = value
  /\ \E order \in IterationOrders(m_cbs) :
       calls' = [i \in 1..Len(order) |->
                   [id |-> order[i], old_val |-> m_val, new_val |-> value]]
  /\ var_call' = [op |-> "setValue", arg |-> value]
  /\ var_result' = NoResult
  /\ UNCHANGED << m_cbs, s_fun_id, removed, returned, str_val >>

\* ConfigVar::setValue
SetValue(value) ==
  /\ IF value = m_val
       THEN /\ calls' = << >>
            /\ UNCHANGED m_val
       ELSE /\ m_val' = value
            /\ \E order \in IterationOrders(m_cbs) :
                 calls' = [i \in 1..Len(order) |->
                             [id |-> order[i], old_val |-> m_val, new_val |-> value]]
  /\ var_call' = [op |-> "setValue", arg |-> value]
  /\ var_result' = NoResult
  /\ UNCHANGED << m_cbs, s_fun_id, removed, returned, str_val >>

\* An addListener that takes the number of registered listeners plus one as
\* the key.
AddListenerBySize ==
  /\ s_fun_id < MaxListeners
  /\ s_fun_id' = s_fun_id + 1
  /\ m_cbs' = m_cbs \cup {Cardinality(m_cbs) + 1}
  /\ var_call' = [op |-> "addListener", arg |-> Cardinality(m_cbs) + 1]
  /\ returned' = returned \cup {Cardinality(m_cbs) + 1}
  /\ calls' = << >>
  /\ var_result' = NoResult
  /\ UNCHANGED << m_val, removed, str_val >>

\* ConfigVar::addListener: the static counter is incremented and is the key.
AddListener ==
  /\ s_fun_id < MaxListeners
  /\ s_fun_id' = s_fun_id + 1
  /\ m_cbs' = m_cbs \cup {s_fun_id + 1}
  /\ var_call' = [op |-> "addListener", arg |-> s_fun_id + 1]
  /\ returned' = returned \cup {s_fun_id + 1}
  /\ calls' = << >>
  /\ var_result' = NoResult
  /\ UNCHANGED << m_val, removed, str_val >>

\* addListener of another ConfigVar<int> that has a counter of its own kind:
\* the key is 1 whatever was handed out before.
AddListenerElsewherePerObject ==
  /\ s_fun_id < MaxListeners
  /\ s_fun_id' = s_fun_id + 1
  /\ var_call' = [op |-> "addListenerElsewhere", arg |-> 1]
  /\ calls' = << >>
  /\ var_result' = NoResult
  /\ UNCHANGED << m_val, m_cbs, removed, returned, str_val >>

\* addListener of another ConfigVar<int> of the process: s_fun_id is a static
\* local of the member function, so all variables of one type share it.
AddListenerElsewhere ==
  /\ s_fun_id < MaxListeners
  /\ s_fun_id' = s_fun_id + 1
  /\ var_call' = [op |-> "addListenerElsewhere", arg |-> s_fun_id + 1]
  /\ calls' = << >>
  /\ var_result' = NoResult
  /\ UNCHANGED << m_val, m_cbs, removed, returned, str_val >>

\* ConfigVar::delListener: m_cbs.erase(key)
DelListener(key) ==
  /\ m_cbs' = m_cbs \ {key}
  /\ removed' = removed \cup (m_cbs \cap {key})
  /\ var_call' = [op |-> "delListener", arg |-> key]
  /\ calls' = << >>
  /\ var_result' = NoResult
  /\ UNCHANGED << m_val, s_fun_id, returned, str_val >>

\* ConfigVar::clearAllListener: m_cbs.clear()
ClearAllListener ==
  /\ m_cbs' = {}
  /\ removed' = removed \cup m_cbs
  /\ var_call' = [op |-> "clearAllListener", arg |-> 0]
  /\ calls' = << >>
  /\ var_result' = NoResult
  /\ UNCHANGED << m_val, s_fun_id, returned, str_val >>

\* Texts are sequences of character codes: a blank, the digit 1, the letter a.
TextChars == {32, 49, 97}

Texts == UNION { [1..n -> TextChars] : n \in 0..MaxTextLen }

\* The characters std::isspace accepts, and the decimal digits.
SpaceChars == {32} \cup (9..13)

DigitChars == 48..57

\* Formatted extraction skips leading whitespace first.
RECURSIVE SkipSpace(_)
SkipSpace(text) ==
  IF text # << >> /\ Head(text) \in SpaceChars THEN SkipSpace(Tail(text)) ELSE text

\* Length of the longest prefix of text made of the given characters.
RECURSIVE PrefixLen(_, _)
PrefixLen(text, chars) ==
  IF text # << >> /\ Head(text) \in chars
    THEN 1 + PrefixLen(Tail(text), chars)
    ELSE 0

\* The number a sequence of decimal digits denotes.
RECURSIVE DecimalValue(_)
DecimalValue(digits) ==
  IF digits = << >>
    THEN 0
    ELSE 10 * DecimalValue(SubSeq(digits, 1, Len(digits) - 1))
           + (digits[Len(digits)] - 48)

\* operator<< of an unsigned number: its decimal digits.
RECURSIVE DecimalText(_)
DecimalText(n) ==
  IF n < 10 THEN << 48 + n >> ELSE DecimalText(n \div 10) \o << 48 + (n % 10) >>

\* convert<int>(std::string): ss << from_value; ss >> to_value; the call throws
\* when the extraction failed or stopped before the end of the text.
convertToInt(from_value) ==
  LET rest == SkipSpace(from_value)
      n == PrefixLen(rest, DigitChars)
  IN [threw |-> n = 0 \/ n # Len(rest),
      to_value |-> DecimalValue(SubSeq(rest, 1, n))]

\* convert<std::string>(std::string): operator>> reads one blank-delimited word.
convertToString(from_value) ==
  LET rest == SkipSpace(from_value)
      n == PrefixLen(rest, (0..127) \ SpaceChars)
  IN [threw |-> n = 0 \/ n # Len(rest),
      to_value |-> SubSeq(rest, 1, n)]

\* A fromString with no try block around the conversion.
FromStringUncaught(val) ==
  LET converted == convertToInt(val)
      changes == ~converted.threw /\ converted.to_value # m_val
  IN /\ IF changes
          THEN /\ m_val' = converted.to_value
               /\ \E order \in IterationOrders(m_cbs) :
                    calls' = [i \in 1..Len(order) |->
                                [id |-> order[i], old_val |-> m_val,
                                 new_val |-> converted.to_value]]
          ELSE /\ calls' = << >>
               /\ UNCHANGED m_val
     /\ var_result' = [threw |-> converted.threw, ret |-> TRUE,
                       input |-> val, output |-> << >>]
     /\ var_call' = [op |-> "fromString", arg |-> 0]
     /\ UNCHANGED << m_cbs, s_fun_id, removed, returned, str_val >>

\* ConfigVar<int>::fromString: setValue(FromStr()(val)) in a try block whose
\* handler returns false.
FromString(val) ==
  LET converted == convertToInt(val)
      changes == ~converted.threw /\ converted.to_value # m_val
  IN /\ IF changes
          THEN /\ m_val' = converted.to_value
               /\ \E order \in IterationOrders(m_cbs) :
                    calls' = [i \in 1..Len(order) |->
                                [id |-> order[i], old_val |-> m_val,
                                 new_val |-> converted.to_value]]
          ELSE /\ calls' = << >>
               /\ UNCHANGED m_val
     /\ var_result' = [threw |-> FALSE, ret |-> ~converted.threw,
                       input |-> val, output |-> << >>]
     /\ var_call' = [op |-> "fromString", arg |-> 0]
     /\ UNCHANGED << m_cbs, s_fun_id, removed, returned, str_val >>

\* ConfigVar<int>::toString: ToStr()(m_val) writes the number and reads it
\* back as a word; the handler of the try block returns "".
ToString ==
  LET converted == convertToString(DecimalText(m_val))
  IN /\ var_result' = [threw |-> FALSE, ret |-> TRUE, input |-> << >>,
                       output |-> IF converted.threw THEN << >>
                                  ELSE converted.to_value]
     /\ var_call' = [op |-> "toString", arg |-> 0]
     /\ calls' = << >>
     /\ UNCHANGED << m_val, m_cbs, s_fun_id, removed, returned, str_val >>

\* ConfigVar<std::string>::setValue; the variable has no listener.
StrSetValue(value) ==
  /\ str_val' = value
  /\ var_call' = [op |-> "strSetValue", arg |-> 0]
  /\ var_result' = NoResult
  /\ calls' = << >>
  /\ UNCHANGED << m_val, m_cbs, s_fun_id, removed, returned >>

\* ConfigVar<std::string>::fromString
StrFromString(val) ==
  LET converted == convertToString(val)
  IN /\ str_val' = IF converted.threw THEN str_val ELSE converted.to_value
     /\ var_result' = [threw |-> FALSE, ret |-> ~converted.threw,
                       input |-> val, output |-> << >>]
     /\ var_call' = [op |-> "strFromString", arg |-> 0]
     /\ calls' = << >>
     /\ UNCHANGED << m_val, m_cbs, s_fun_id, removed, returned >>

\* ConfigVar<std::string>::toString
StrToString ==
  LET converted == convertToString(str_val)
  IN /\ var_result' = [threw |-> FALSE, ret |-> TRUE, input |-> << >>,
                       output |-> IF converted.threw THEN << >>
                                  ELSE converted.to_value]
     /\ var_call' = [op |-> "strToString", arg |-> 0]
     /\ calls' = << >>
     /\ UNCHANGED << m_val, m_cbs, s_fun_id, removed, returned, str_val >>

VarNext ==
  /\ UNCHANGED << poolVars, cfgVars, regVars, loadVars, codecVars, lockVars, idVars, lifeVars >>
  /\ \/ \E value \in Values : SetValue(value)
     \/ AddListener
     \/ AddListenerElsewhere
     \/ \E key \in 1..MaxListeners : DelListener(key)
     \/ ClearAllListener
     \/ \E val \in Texts : FromString(val)
     \/ ToString
     \/ \E value \in Texts : StrSetValue(value)
     \/ \E val \in Texts : StrFromString(val)
     \/ StrToString

VarSpec == Init /\ [][VarNext]_vars

\* ConfigVar<std::string>::addListener: the static local s_fun_id of this
\* instantiation of the member function is incremented and is the key.
StrAddListener ==
  /\ str_fun_id < MaxListeners
  /\ str_fun_id' = str_fun_id + 1
  /\ str_cbs' = str_cbs \cup {str_fun_id + 1}
  /\ var_call' = [op |-> "strAddListener", arg |-> str_fun_id + 1]
  /\ calls' = << >>
  /\ var_result' = NoResult
  /\ UNCHANGED << m_val, m_cbs, s_fun_id, removed, returned, str_val >>

\* ConfigVar<std::string>::delListener
StrDelListener(key) ==
  /\ str_cbs' = str_cbs \ {key}
  /\ var_call' = [op |-> "strDelListener", arg |-> key]
  /\ calls' = << >>
  /\ var_result' = NoResult
  /\ UNCHANGED << m_val, m_cbs, s_fun_id, removed, returned, str_val, str_fun_id >>

\* The variable an addListener call was made on, with its value type.
CalledVariable(op) ==
  IF op = "addListener" THEN [var |-> "int_var", type |-> "int"]
  ELSE IF op = "addListenerElsewhere" THEN [var |-> "other_int_var", type |-> "int"]
  ELSE [var |-> "str_var", type |-> "string"]

\* The addListener calls on two ConfigVar<int> and one ConfigVar<std::string>
\* of one process, each noted with the key it returned.
IdNext ==
  /\ UNCHANGED << poolVars, cfgVars, regVars, loadVars, codecVars, lockVars, lifeVars >>
  /\ \/ /\ \/ AddListener /\ UNCHANGED << str_fun_id, str_cbs >>
           \/ AddListenerElsewhere /\ UNCHANGED << str_fun_id, str_cbs >>
           \/ StrAddListener
        /\ issued' = Append(issued, [var |-> CalledVariable(var_call'.op).var,
                                      type |-> CalledVariable(var_call'.op).type,
                                      key |-> var_call'.arg])
     \/ /\ \E key \in 1..MaxListeners : DelListener(key)
        /\ UNCHANGED idVars
     \/ /\ \E key \in 1..MaxListeners : StrDelListener(key)
        /\ UNCHANGED issued

IdSpec == Init /\ [][IdNext]_vars

----------------------------------------------------------------------------
\* Loading YAML into the registry (Config::loadFromYaml, Config::loadFromConfDir).

\* Keys of the maps of a document, 'a' and 'A', and the texts of its scalars,
\* "1" and "a".
YamlKeys == { << 97 >>, << 65 >> }

ScalarTexts == { << 49 >>, << 97 >> }

ScalarNodes == { YamlScalar(text) : text \in ScalarTexts }

\* The entry lists of a map with distinct keys and values among nodes.
EntryLists(nodes) ==
  {<< >>}
    \cup { << [key |-> k, node |-> n] >> : k \in YamlKeys, n \in nodes }
    \cup UNION { { << [key |-> k1, node |-> n1], [key |-> k2, node |-> n2] >> :
                    k2 \in YamlKeys \ {k1}, n1 \in nodes, n2 \in nodes } :
                k1 \in YamlKeys }

\* The maps below the top of a document have at most one entry.
InnerMaps ==
  { YamlMap(entries) : entries \in { e \in EntryLists(ScalarNodes) : Len(e) <= 1 } }

\* The documents given to loadFromYaml: maps of scalars and of maps of scalars.
YamlRoots == { YamlMap(entries) : entries \in EntryLists(ScalarNodes \cup InnerMaps) }

\* The names the application registers: "a", "a.a" and "0".
LoadNames == { << 97 >>, << 97, 46, 97 >>, << 48 >> }

RECURSIVE listAllMembers(_, _)
RECURSIVE listEntries(_, _)

\* The loop of listAllMembers over the entries of a map.
listEntries(prefix, entries) ==
  IF entries = << >>
    THEN << >>
    ELSE LET kv == Head(entries)
             new_prefix == IF prefix # << >>
                             THEN prefix \o << 46 >> \o kv.key
                             ELSE kv.key
         IN listAllMembers(new_prefix, kv.node) \o listEntries(prefix, Tail(entries))

\* listAllMembers: the dotted paths of a node with the node at each path; a
\* path that is not a valid name is dropped with everything below it.
listAllMembers(prefix, node) ==
  IF prefix # << >> /\ ~isValidName(prefix)
    THEN << >>
    ELSE (IF prefix # << >> THEN << [key |-> prefix, node |-> node] >> ELSE << >>)
           \o (IF node.kind = "map" THEN listEntries(prefix, node.entries) ELSE << >>)

\* operator<< of a map of scalars: "key: text" lines, or "{}" for no entry.
RECURSIVE EmitEntries(_)
EmitEntries(entries) ==
  IF entries = << >>
    THEN << >>
    ELSE Head(entries).key \o << 58, 32 >> \o Head(entries).node.text
           \o (IF Tail(entries) = << >> THEN << >> ELSE << 10 >> \o EmitEntries(Tail(entries)))

EmitNode(node) ==
  IF node.kind = "scalar" THEN node.text
  ELSE IF node.entries = << >> THEN << 123, 125 >>
  ELSE EmitEntries(node.entries)

\* ConfigVar<int>::fromString on a registered variable.
VarFromString(var, val) ==
  LET converted == convertToInt(val)
  IN IF converted.threw THEN var ELSE [var EXCEPT !.val = converted.to_value]

\* A loop body that registers a variable for a key it does not know.
LoadNodeCreating(reg, node_pair) ==
  IF node_pair.key \in DOMAIN reg
    THEN [reg EXCEPT ![node_pair.key] =
            VarFromString(@, IF node_pair.node.kind = "scalar"
                               THEN node_pair.node.text
                               ELSE EmitNode(node_pair.node))]
    ELSE [n \in DOMAIN reg \cup {node_pair.key} |->
            IF n = node_pair.key
              THEN [id |-> 0, type |-> "int", val |-> 0, description |-> "first"]
              ELSE reg[n]]

\* The body of the loop of loadFromYaml: a registered key gets fromString of
\* the scalar or of the printed node, another key is only logged.
LoadNode(reg, node_pair) ==
  IF node_pair.key \in DOMAIN reg
    THEN [reg EXCEPT ![node_pair.key] =
            VarFromString(@, IF node_pair.node.kind = "scalar"
                               THEN node_pair.node.text
                               ELSE EmitNode(node_pair.node))]
    ELSE reg

RECURSIVE LoadNodes(_, _)
LoadNodes(reg, node_pairs) ==
  IF node_pairs = << >>
    THEN reg
    ELSE LoadNodes(LoadNode(reg, Head(node_pairs)), Tail(node_pairs))

\* Config::loadFromYaml as a function of the registry.
loadFromYaml(reg, root) == LoadNodes(reg, listAllMembers(<< >>, root))

\* Config::getOrCreateConfigVarPtr<int>(name, default_value) with a valid name.
RegisterInt(name, default_value) ==
  /\ reg_call' = [op |-> "getOrCreate", name |-> name, type |-> "int"]
  /\ IF name \in DOMAIN registry
       THEN /\ reg_result' = [kind |-> "var", id |-> registry[name].id]
            /\ UNCHANGED << registry, reg_created >>
       ELSE /\ reg_created' = reg_created + 1
            /\ registry' = [n \in DOMAIN registry \cup {name} |->
                              IF n = name
                                THEN [id |-> reg_created + 1, type |-> "int",
                                      val |-> default_value,
                                      description |-> "first"]
                                ELSE registry[n]]
            /\ reg_result' = [kind |-> "var", id |-> reg_created + 1]

\* A call of Config::loadFromYaml.
LoadYamlRoot(root) ==
  /\ registry' = loadFromYaml(registry, root)
  /\ yaml_root' = root
  /\ all_nodes' = listAllMembers(<< >>, root)
  /\ reg_call' = [op |-> "loadFromYaml", name |-> << >>, type |-> "none"]
  /\ reg_result' = [kind |-> "none", id |-> 0]
  /\ UNCHANGED << reg_created, file_text, file_mtime, cached_timestamp, dir_call >>

YamlNext ==
  /\ UNCHANGED << poolVars, cfgVars, varVars, codecVars, lockVars, idVars, lifeVars >>
  /\ \/ /\ \E name \in LoadNames : RegisterInt(name, 0)
        /\ yaml_root' = YamlMap(<< >>)
        /\ all_nodes' = << >>
        /\ UNCHANGED << file_text, file_mtime, cached_timestamp, dir_call >>
     \/ \E root \in YamlRoots : LoadYamlRoot(root)

YamlSpec == Init /\ [][YamlNext]_vars

\* The keys of the documents given to listAllMembers alone: 'a', 'A' and the
\* empty key of an entry written as "": or ~: in the document.
FlatKeys == { << 97 >>, << 65 >>, << >> }

\* The entry lists of a map with at most two entries, distinct keys among keys
\* and values among nodes.
EntryListsOver(keys, nodes) ==
  {<< >>}
    \cup { << [key |-> k, node |-> n] >> : k \in keys, n \in nodes }
    \cup UNION { { << [key |-> k1, node |-> n1], [key |-> k2, node |-> n2] >> :
                    k2 \in keys \ {k1}, n1 \in nodes, n2 \in nodes } :
                k1 \in keys }

\* The nodes without a map entry: the scalar "1" and a sequence whose one item
\* is the map "a: 1".
FlatLeaves ==
  { YamlScalar(<< 49 >>),
    YamlSeq(<< YamlMap(<< [key |-> << 97 >>, node |-> YamlScalar(<< 49 >>)] >>) >>) }

\* The values of the entries of a document: a leaf, or a map of at most one
\* entry whose value is a leaf.
FlatInner ==
  FlatLeaves
    \cup { YamlMap(entries) :
             entries \in { e \in EntryListsOver(FlatKeys, FlatLeaves) : Len(e) <= 1 } }

\* The documents given to listAllMembers.
FlatRoots == { YamlMap(entries) : entries \in EntryListsOver(FlatKeys, FlatInner) }

\* The first two statements of loadFromYaml: listAllMembers("", root, all_nodes).
FlattenRoot(root) ==
  /\ yaml_root' = root
  /\ all_nodes' = listAllMembers(<< >>, root)
  /\ UNCHANGED << file_text, file_mtime, cached_timestamp, dir_call >>

FlatNext ==
  /\ UNCHANGED << poolVars, cfgVars, regVars, varVars, codecVars, lockVars, idVars, lifeVars >>
  /\ \E root \in FlatRoots : FlattenRoot(root)

FlatSpec == Init /\ [][FlatNext]_vars

\* What a .yml file can hold: no YAML, "a: 1", or "a:" over "a: 1".
FileTexts ==
  { Malformed,
    YamlFile(YamlMap(<< [key |-> << 97 >>, node |-> YamlScalar(<< 49 >>)] >>)),
    YamlFile(YamlMap(<< [key |-> << 97 >>,
                         node |-> YamlMap(<< [key |-> << 97 >>,
                                              node |-> YamlScalar(<< 49 >>)] >>)] >>)) }

\* The names registered by the application that loads the directory.
DirNames == { << 97 >>, << 97, 46, 97 >> }

\* The orders in which recursive_directory_iterator can give the files.
DirectoryOrders(files) ==
  { order \in [1..Cardinality(files) -> files] :
      \A i, j \in 1..Cardinality(files) : i # j => order[i] # order[j] }

\* A test that skips a file with an unchanged time even when force is set.
ShouldSkipIgnoringForce(force, current_timestamp, cached) ==
  current_timestamp = cached

\* A test that skips no file.
ShouldSkipNever(force, current_timestamp, cached) == FALSE

\* !force && current_timestamp == cached_timestamp
ShouldSkip(force, current_timestamp, cached) ==
  ~force /\ current_timestamp = cached

\* A loop body that stores the timestamp only after the file was parsed.
LoadFileCachingAfterParse(d, file, force) ==
  IF ShouldSkip(force, file_mtime[file], d.cache[file])
    THEN [d EXCEPT !.skipped = @ \cup {file}]
    ELSE IF file_text[file].state = "yaml"
           THEN [d EXCEPT !.cache = [@ EXCEPT ![file] = file_mtime[file]],
                          !.reg = loadFromYaml(@, file_text[file].root),
                          !.applied = @ \cup {file}]
           ELSE [d EXCEPT !.failed = @ \cup {file}]

\* The body of the loop of loadFromConfDir for a file whose last write time
\* could be read: the timestamp is stored, then the file is parsed and loaded;
\* an exception of the parser is caught and logged.
LoadFile(d, file, force) ==
  IF ShouldSkip(force, file_mtime[file], d.cache[file])
    THEN [d EXCEPT !.skipped = @ \cup {file}]
    ELSE IF file_text[file].state = "yaml"
           THEN [d EXCEPT !.cache = [@ EXCEPT ![file] = file_mtime[file]],
                          !.reg = loadFromYaml(@, file_text[file].root),
                          !.applied = @ \cup {file}]
           ELSE [d EXCEPT !.cache = [@ EXCEPT ![file] = file_mtime[file]],
                          !.failed = @ \cup {file}]

\* The loop of loadFromConfDir; a file that vanished after the listing gives
\* an error code for its last write time and is passed over.
RECURSIVE LoadFiles(_, _, _, _)
LoadFiles(d, files, force, vanished) ==
  IF files = << >>
    THEN d
    ELSE LoadFiles(IF Head(files) \in vanished THEN d ELSE LoadFile(d, Head(files), force),
                   Tail(files), force, vanished)

\* Config::loadFromConfDir(relative_dir_path, force)
LoadFromConfDir(force) ==
  \E files \in DirectoryOrders({ f \in Files : file_text[f].state # "absent" }) :
    \E vanished \in { v \in SUBSET Range(files) : Cardinality(v) <= 1 } :
      LET d == LoadFiles([reg |-> registry, cache |-> cached_timestamp,
                          applied |-> {}, failed |-> {}, skipped |-> {}],
                         files, force, vanished)
      IN /\ registry' = d.reg
         /\ cached_timestamp' = d.cache
         /\ file_text' = [f \in Files |-> IF f \in vanished THEN NoFile ELSE file_text[f]]
         /\ dir_call' = [op |-> "load", force |-> force, files |-> files,
                         vanished |-> vanished, applied |-> d.applied,
                         failed |-> d.failed, skipped |-> d.skipped]
         /\ reg_call' = [op |-> "loadFromConfDir", name |-> << >>, type |-> "none"]
         /\ reg_result' = [kind |-> "none", id |-> 0]
         /\ UNCHANGED << reg_created, file_mtime, yaml_root, all_nodes >>

\* The files are written from outside the process: a text and a last write time.
WriteFile(file, text, time) ==
  /\ file_text' = [file_text EXCEPT ![file] = text]
  /\ file_mtime' = [file_mtime EXCEPT ![file] = time]
  /\ dir_call' = NoDirCall
  /\ UNCHANGED << regVars, cached_timestamp, yaml_root, all_nodes >>

DirNext ==
  /\ UNCHANGED << poolVars, cfgVars, varVars, codecVars, lockVars, idVars, lifeVars >>
  /\ \/ /\ \E name \in DirNames : RegisterInt(name, 0)
        /\ dir_call' = NoDirCall
        /\ UNCHANGED << file_text, file_mtime, cached_timestamp, yaml_root,
                        all_nodes >>
     \/ /\ \E name \in DirNames, value \in Values : SetRegisteredValue(name, value)
        /\ dir_call' = NoDirCall
        /\ UNCHANGED << file_text, file_mtime, cached_timestamp, yaml_root,
                        all_nodes >>
     \/ \E file \in Files, text \in FileTexts, time \in 1..MaxTime :
          WriteFile(file, text, time)
     \/ \E force \in BOOLEAN : LoadFromConfDir(force)

DirSpec == Init /\ [][DirNext]_vars

\* The directory loader in a program that also empties the registry and
\* registers its variables again.
ClearNext ==
  /\ UNCHANGED << poolVars, cfgVars, varVars, codecVars, lockVars, idVars, lifeVars >>
  /\ \/ /\ reg_created < MaxCreated
        /\ \E name \in DirNames : RegisterInt(name, 0)
        /\ dir_call' = NoDirCall
        /\ UNCHANGED << file_text, file_mtime, cached_timestamp, yaml_root,
                        all_nodes >>
     \/ /\ ClearAllData
        /\ dir_call' = NoDirCall
        /\ UNCHANGED << file_text, file_mtime, cached_timestamp, yaml_root,
                        all_nodes >>
     \/ \E file \in Files, text \in FileTexts, time \in 1..MaxTime :
          WriteFile(file, text, time)
     \/ \E force \in BOOLEAN : LoadFromConfDir(force)

ClearSpec == Init /\ [][ClearNext]_vars

----------------------------------------------------------------------------
\* The converters between values and YAML text (TypeConverter in config.hpp).

\* The vectors of at most MaxElems texts and the sets of the numbers 0, 1, 11.
StringVectors == UNION { [1..n -> Texts] : n \in 0..MaxElems }

IntSets == SUBSET {0, 1, 11}

\* The values given to the converters.
CodecValues ==
  { VectorValue(v) : v \in StringVectors }
    \cup { SetValueOf(s) : s \in IntSets }
    \cup { ConfigValue(c) : c \in ConfigValues }

\* operator<< of a sequence node of plain scalars: "[]" when it is empty,
\* otherwise one "- text" line for each item.
RECURSIVE EmitSequence(_)
EmitSequence(items) ==
  IF items = << >> THEN << 91, 93 >>
  ELSE << 45, 32 >> \o Head(items)
         \o (IF Tail(items) = << >> THEN << >> ELSE << 10 >> \o EmitSequence(Tail(items)))

\* The lines of a text.
RECURSIVE Lines(_)
Lines(chars) ==
  LET n == PrefixLen(chars, (0..127) \ {10})
  IN IF n = Len(chars)
       THEN << chars >>
       ELSE << SubSeq(chars, 1, n) >> \o Lines(SubSeq(chars, n + 2, Len(chars)))

\* YAML::Load of such a text and ss << elem for each element of the node: the
\* texts of the items of the sequence.
ParseSequence(chars) ==
  IF chars = << 91, 93 >> THEN << >>
  ELSE [i \in 1..Len(Lines(chars)) |->
          SubSeq(Lines(chars)[i], 3, Len(Lines(chars)[i]))]

\* The elements of a std::set<int> in the order of its iteration.
Ascending(s) ==
  CHOOSE order \in [1..Cardinality(s) -> s] :
    \A i, j \in 1..Cardinality(s) : i < j => order[i] < order[j]

\* TypeConverter<std::vector<std::string>, std::string>: each element goes
\* through TypeConverter<std::string, std::string>, which is convert, then
\* through YAML::Load into the sequence node, which is printed.
VectorToString(v) ==
  LET converted == [i \in 1..Len(v) |-> convertToString(v[i])]
  IN [threw |-> \E i \in 1..Len(v) : converted[i].threw,
      chars |-> EmitSequence([i \in 1..Len(v) |-> converted[i].to_value])]

\* TypeConverter<std::string, std::vector<std::string>>
StringToVector(chars) ==
  LET items == ParseSequence(chars)
      converted == [i \in 1..Len(items) |-> convertToString(items[i])]
  IN [threw |-> \E i \in 1..Len(items) : converted[i].threw,
      value |-> [i \in 1..Len(items) |-> converted[i].to_value]]

\* TypeConverter<std::set<int>, std::string>
SetToString(s) ==
  LET converted == [i \in 1..Cardinality(s) |->
                      convertToString(DecimalText(Ascending(s)[i]))]
  IN [threw |-> \E i \in 1..Cardinality(s) : converted[i].threw,
      chars |-> EmitSequence([i \in 1..Cardinality(s) |-> converted[i].to_value])]

\* TypeConverter<std::string, std::set<int>>
StringToSet(chars) ==
  LET items == ParseSequence(chars)
      converted == [i \in 1..Len(items) |-> convertToInt(items[i])]
  IN [threw |-> \E i \in 1..Len(items) : converted[i].threw,
      value |-> { converted[i].to_value : i \in 1..Len(items) }]

\* TypeConverter<ThreadPoolConfig, std::string>: a node with the five keys.
ToStr(tpc) == [f \in ConfigFields |-> tpc[f]]

\* A call of TypeConverter<T, std::string> on the value.
ToYaml ==
  /\ codec_state = "value"
  /\ LET text == IF codec_val.type = "vector" THEN VectorToString(codec_val.vec)
                  ELSE SetToString(codec_val.set)
     IN IF codec_val.type = "config"
          THEN /\ codec_text' = [NoText EXCEPT !.node = ToStr(codec_val.config)]
               /\ codec_state' = "text"
          ELSE IF text.threw
                 THEN /\ codec_state' = "threw"
                      /\ UNCHANGED codec_text
                 ELSE /\ codec_text' = [NoText EXCEPT !.chars = text.chars]
                      /\ codec_state' = "text"
  /\ UNCHANGED << codec_val, codec_back >>

\* A call of TypeConverter<std::string, T> on the text.
FromYaml ==
  /\ codec_state = "text"
  /\ LET back == IF codec_val.type = "vector"
                    THEN [threw |-> StringToVector(codec_text.chars).threw,
                          value |-> VectorValue(StringToVector(codec_text.chars).value)]
                  ELSE IF codec_val.type = "set"
                    THEN [threw |-> StringToSet(codec_text.chars).threw,
                          value |-> SetValueOf(StringToSet(codec_text.chars).value)]
                  ELSE [threw |-> FALSE,
                        value |-> ConfigValue(FromStr(codec_text.node))]
     IN IF back.threw
          THEN /\ codec_state' = "threw"
               /\ UNCHANGED codec_back
          ELSE /\ codec_back' = back.value
               /\ codec_state' = "back"
  /\ UNCHANGED << codec_val, codec_text >>

\* Any value is converted to text and back.
CodecInit ==
  /\ Constructed(DefaultConfig)
  /\ ThreadPoolVarCreated
  /\ RegistryEmpty
  /\ VarCreated
  /\ NothingLoaded
  /\ NoLockHeld
  /\ NoKeyIssued
  /\ PoolAlive
  /\ codec_val \in CodecValues
  /\ codec_text = NoText
  /\ codec_back = ConfigValue(DefaultConfig)
  /\ codec_state = "value"

CodecNext ==
  /\ UNCHANGED << poolVars, cfgVars, regVars, varVars, loadVars, lockVars, idVars, lifeVars >>
  /\ \/ ToYaml
     \/ FromYaml

CodecSpec == CodecInit /\ [][CodecNext]_vars

----------------------------------------------------------------------------
\* The mutexes of the pool and the order in which its functions take them.

\* m_status_mutex, m_worker_list_mutex, m_zombie_workers_mutex,
\* m_task_queue_mutex and m_monitor_mutex of the pool, and the m_status_mutex
\* of each of the two workers.
PoolLocks == {"status", "list", "zombie", "queue", "monitor", "w1", "w2"}

WorkerLock == [t \in {"worker1", "worker2"} |-> IF t = "worker1" THEN "w1" ELSE "w2"]

Lock(l) == [op |-> "lock", lock |-> l]

LockShared(l) == [op |-> "lock_shared", lock |-> l]

Unlock(l) == [op |-> "unlock", lock |-> l]

\* WorkerThread::pause, resume and terminate called for every worker of a
\* list: each takes the worker's status mutex and releases it.
EachWorker == << Lock("w1"), Unlock("w1"), Lock("w2"), Unlock("w2") >>

\* ThreadPool::pause and ThreadPool::resume: the status is as expected, or not.
PauseLocks ==
  { << Lock("status"), Lock("list") >> \o EachWorker \o << Unlock("list"), Unlock("status") >>,
    << Lock("status"), Unlock("status") >> }

\* ThreadPool::submit: the status check throws, isTaskQueueFull throws, or
\* the task is enqueued (isTaskQueueFull takes the queue mutex unless
\* max_task_count is 0).
SubmitLocks ==
  { << Lock("status"), Unlock("status") >>,
    << Lock("status"), Lock("queue"), Unlock("queue"), Unlock("status") >>,
    << Lock("status"), Lock("queue"), Unlock("queue"), Lock("queue"), Unlock("queue"),
       Unlock("status") >> }

\* ThreadPool::increaseThreadCount
IncreaseLocks ==
  { << Lock("status"), Unlock("status") >>,
    << Lock("status"), Lock("list"), Unlock("list"), Unlock("status") >> }

\* decreaseThreadCountWithoutStatusLock past its status check.
RetireLocks ==
  << Lock("list"), Lock("zombie") >> \o EachWorker \o << Unlock("zombie"), Unlock("list") >>

\* ThreadPool::decreaseThreadCount
DecreaseLocks ==
  { << Lock("status"), Unlock("status") >>,
    << Lock("status") >> \o RetireLocks \o << Unlock("status") >> }

\* ThreadPool::shutdown: from a closed status, from RUNNING and from PAUSED;
\* the wait on m_task_queue_empty_cv releases the queue mutex and takes it
\* again.
ShutdownLocks ==
  LET rest == << Lock("queue"), Unlock("queue"), Lock("queue"), Unlock("queue"),
                 Lock("list"), Unlock("list"), Lock("zombie"), Unlock("zombie") >>
  IN { << Lock("status"), Unlock("status") >>,
       << Lock("status"), Unlock("status") >> \o rest,
       << Lock("status"), Lock("list") >> \o EachWorker
          \o << Unlock("list"), Unlock("status") >> \o rest }

\* getStatus, getThreadCount and isTaskQueueFull called by the application.
GetterLocks ==
  { << Lock("status"), Unlock("status") >>,
    << Lock("list"), Unlock("list") >>,
    << Lock("queue"), Unlock("queue") >> }

\* One round of ThreadPool::monitorLoop: the timed wait under m_monitor_mutex,
\* then adjustThreadCount, which returns on a closed status, grows or stops
\* after its reads, or counts the timed-out workers and retires them or not.
MonitorLocks ==
  LET wait == << Lock("monitor"), Unlock("monitor") >>
      reads == << Lock("status"), Lock("list"), Unlock("list"), Lock("queue"), Unlock("queue") >>
  IN { wait,
       wait \o << Lock("status"), Unlock("status") >>,
       wait \o reads \o << Unlock("status") >>,
       wait \o reads \o << Lock("list"), Unlock("list"), Unlock("status") >>,
       wait \o reads \o << Lock("list"), Unlock("list") >> \o RetireLocks
          \o << Unlock("status") >> }

\* WorkerThread::isWake reading the pool status through ThreadPool::getStatus.
isWakeByGetStatus(l) == << Lock("status"), Unlock("status") >>

\* WorkerThread::isWake: a shared lock on the worker's own status mutex.
isWakeLocks(l) == << LockShared(l), Unlock(l) >>

\* One round of WorkerThread::run for the worker whose status mutex is l:
\* phase 1 ends the round (terminated, or paused), or the worker takes the
\* queue mutex, calls isWake, waits once on m_task_queue_cv or not, re-reads
\* its status and leaves the block, after storing TERMINATING or not.
WorkerLocks(l) ==
  LET phase1 == << Lock(l), Unlock(l) >>
      wait == << Unlock("queue"), Lock("queue") >> \o isWakeLocks(l)
      recheck == << LockShared(l), Unlock(l) >>
  IN { phase1,
       phase1 \o << Lock("queue") >> \o isWakeLocks(l) \o recheck \o << Unlock("queue") >>,
       phase1 \o << Lock("queue") >> \o isWakeLocks(l) \o wait \o recheck \o << Unlock("queue") >>,
       phase1 \o << Lock("queue") >> \o isWakeLocks(l) \o recheck
          \o << Lock(l), Unlock(l), Unlock("queue") >> }

\* The functions a thread can be in.
LockPrograms(t) ==
  IF t \in DOMAIN WorkerLock THEN WorkerLocks(WorkerLock[t])
  ELSE IF t = "monitor" THEN MonitorLocks
  ELSE PauseLocks \cup SubmitLocks \cup IncreaseLocks \cup DecreaseLocks
         \cup ShutdownLocks \cup GetterLocks

\* The call thread t makes next, and whether the mutex lets it through: a
\* std::mutex when nobody holds it, a shared lock when nobody holds it
\* exclusively.
NextCall(t) == lk_prog[t][lk_pc[t]]

Holders(l) == { u \in LockThreads : l \in lk_held[u] }

Available(call) ==
  IF call.op = "lock_shared"
    THEN \A u \in Holders(call.lock) : call.lock \in lk_shared[u]
    ELSE Holders(call.lock) = {}

\* A thread enters a function of the pool.
LockEnter(t) ==
  /\ lk_pc[t] = 0
  /\ \E prog \in LockPrograms(t) : lk_prog' = [lk_prog EXCEPT ![t] = prog]
  /\ lk_pc' = [lk_pc EXCEPT ![t] = 1]
  /\ UNCHANGED << lk_held, lk_shared >>

\* A thread takes or releases the next mutex of the function it is in, and
\* leaves the function after its last call.
LockCall(t) ==
  /\ lk_pc[t] > 0
  /\ LET call == NextCall(t)
         last_call == lk_pc[t] = Len(lk_prog[t])
     IN /\ CASE call.op = "lock" ->
                   /\ Available(call)
                   /\ lk_held' = [lk_held EXCEPT ![t] = @ \cup {call.lock}]
                   /\ UNCHANGED lk_shared
             [] call.op = "lock_shared" ->
                   /\ Available(call)
                   /\ lk_held' = [lk_held EXCEPT ![t] = @ \cup {call.lock}]
                   /\ lk_shared' = [lk_shared EXCEPT ![t] = @ \cup {call.lock}]
             [] OTHER ->
                   /\ lk_held' = [lk_held EXCEPT ![t] = @ \ {call.lock}]
                   /\ lk_shared' = [lk_shared EXCEPT ![t] = @ \ {call.lock}]
        /\ lk_pc' = [lk_pc EXCEPT ![t] = IF last_call THEN 0 ELSE @ + 1]
        /\ lk_prog' = [lk_prog EXCEPT ![t] = IF last_call THEN << >> ELSE @]

LockNext ==
  /\ UNCHANGED << poolVars, cfgVars, regVars, varVars, loadVars, codecVars,
                  idVars, lifeVars >>
  /\ \/ \E t \in LockThreads : LockEnter(t)
     \/ \E t \in LockThreads : LockCall(t)

LockSpec == Init /\ [][LockNext]_vars

----------------------------------------------------------------------------
\* The specification.

WorkerStep(w) ==
  \/ WorkerCheckStatus(w)
  \/ WorkerAcquireSem(w)
  \/ WorkerLockQueue(w)
  \/ WorkerWait(w)
  \/ WorkerRecheckStatus(w)
  \/ WorkerTakeTask(w)
  \/ WorkerBeginTask(w)
  \/ WorkerFinishTask(w)
  \/ WorkerStoreLastActive(w)

ShutdownStep ==
  \/ ShutdownAfterResume
  \/ ShutdownDrained
  \/ ShutdownTerminate
  \/ ShutdownNotifyAgain
  \/ ShutdownJoinWorkers
  \/ ShutdownJoinZombies
  \/ ShutdownFinish

Next ==
  /\ ~crashed
  /\ UNCHANGED << cfgVars, regVars, varVars, loadVars, codecVars, lockVars, idVars, lifeVars >>
  /\ \/ \E w \in Workers : WorkerStep(w)
     \/ \E w \in Workers : WorkerSpuriousWake(w)
     \/ \E w \in Workers : TimePasses(w)
     \/ Pause
     \/ Resume
     \/ ShutdownCall
     \/ ShutdownStep
     \/ SubmitCheck
     \/ SubmitEnqueue
     \/ \E n \in 0..MaxCap : SetMaxTaskCount(n)
     \/ \E n \in 0..MaxWorkers : IncreaseThreadCount(n)
     \/ \E n \in 0..MaxWorkers : DecreaseThreadCount(n)
     \/ MonitorTick

Spec == Init /\ [][Next]_vars

\* Fair scheduling: every thread of the pool that can take a step eventually
\* takes one (a task that was started returns, a thread that can take a free
\* lock gets it, the shutdown call goes on when what it waits for has
\* happened).  Callers are not obliged to call anything, and a wait() is not
\* obliged to return without a notification.
FairSpec ==
  /\ Spec
  /\ \A w \in Workers : SF_vars(WorkerStep(w) /\ UNCHANGED << cfgVars, regVars, varVars, loadVars, codecVars, lockVars, idVars, lifeVars >>)
  /\ SF_vars(ShutdownStep /\ UNCHANGED << cfgVars, regVars, varVars, loadVars, codecVars, lockVars, idVars, lifeVars >>)
  /\ SF_vars(SubmitEnqueue /\ UNCHANGED << cfgVars, regVars, varVars, loadVars, codecVars, lockVars, idVars, lifeVars >>)
  /\ SF_vars(MonitorTick /\ UNCHANGED << cfgVars, regVars, varVars, loadVars, codecVars, lockVars, idVars, lifeVars >>)

\* The values of the variable that change core_thread_count and
\* max_thread_count only.
ScaleValues ==
  { [DefaultConfig EXCEPT !.core_thread_count = c, !.max_thread_count = m] :
      c \in 0..MaxWorkers, m \in (1..MaxWorkers) \cup {DefaultMaxThreadCount} }

\* A monitor tick, with a note of the resize it made, of the growth that
\* max_thread_count kept it from, or of the status that made it return at once.
MonitorTickNoted ==
  /\ MonitorTick
  /\ monitor_did' = IF ~terminating_flag /\ status \notin OpenStatus THEN "closed"
                     ELSE IF Len(worker_list') > Len(worker_list) THEN "grow"
                     ELSE IF Len(worker_list') < Len(worker_list) THEN "shrink"
                     ELSE IF /\ status = "RUNNING"
                             /\ ~terminating_flag
                             /\ busy_thread_count = Len(worker_list)
                             /\ QueueSizeAtLeast(1)
                             /\ Len(worker_list) >= max_thread_count
                            THEN "at_max"
                     ELSE monitor_did
  /\ UNCHANGED << keep_alive_time, monitor_interval, cfg, loaded, omitted_changed >>

\* A pool, running or paused by its caller, whose thread count is changed by
\* its callers and by its monitor while the variable changes core_thread_count
\* and max_thread_count.
ScaleNext ==
  /\ ~crashed
  /\ UNCHANGED << regVars, varVars, loadVars, codecVars, lockVars, idVars, lifeVars >>
  /\ \/ \E w \in Workers : WorkerStep(w) /\ UNCHANGED cfgVars
     \/ \E w \in Workers : TimePasses(w) /\ UNCHANGED cfgVars
     \/ Pause /\ UNCHANGED cfgVars
     \/ SubmitCheck /\ UNCHANGED cfgVars
     \/ SubmitEnqueue /\ UNCHANGED cfgVars
     \/ \E n \in 0..MaxWorkers : IncreaseThreadCount(n) /\ UNCHANGED cfgVars
     \/ \E n \in 0..MaxWorkers : DecreaseThreadCount(n) /\ UNCHANGED cfgVars
     \/ MonitorTickNoted
     \/ \E value \in ScaleValues : SetThreadPoolConfig(value)

ScaleSpec == Init /\ [][ScaleNext]_vars

\* A running pool whose callers submit tasks, add workers and shut it down
\* while its monitor ticks and the variable changes core_thread_count and
\* max_thread_count.
MonitorNext ==
  /\ ~crashed
  /\ UNCHANGED << regVars, varVars, loadVars, codecVars, lockVars, idVars, lifeVars >>
  /\ \/ \E w \in Workers : WorkerStep(w) /\ UNCHANGED cfgVars
     \/ \E w \in Workers : TimePasses(w) /\ UNCHANGED cfgVars
     \/ SubmitCheck /\ UNCHANGED cfgVars
     \/ SubmitEnqueue /\ UNCHANGED cfgVars
     \/ \E n \in 0..MaxWorkers : IncreaseThreadCount(n) /\ UNCHANGED cfgVars
     \/ MonitorTickNoted
     \/ \E value \in ScaleValues : SetThreadPoolConfig(value)
     \/ ShutdownCall /\ UNCHANGED cfgVars
     \/ ShutdownDrained /\ UNCHANGED cfgVars
     \/ ShutdownTerminate /\ UNCHANGED cfgVars
     \/ ShutdownNotifyAgain /\ UNCHANGED cfgVars
     \/ ShutdownJoinWorkers /\ UNCHANGED cfgVars
     \/ ShutdownJoinZombies /\ UNCHANGED cfgVars
     \/ ShutdownFinish /\ UNCHANGED cfgVars

MonitorSpec == Init /\ [][MonitorNext]_vars

\* ~ThreadPool once the shutdown() it calls has returned: the members of the
\* pool are destroyed.  Neither shutdown nor the destructor calls delListener,
\* so m_cbs of the variable keeps the listener the constructor added.
DestroyPool ==
  /\ pool_alive
  /\ sd = "done"
  /\ pool_alive' = FALSE
  /\ UNCHANGED << cfg_cbs, stale_call >>
  /\ UNCHANGED << poolVars, cfgVars >>

\* setValue on the variable after the pool was destroyed: the loop over m_cbs
\* calls every listener it holds.  The listener of the pool stores to members
\* through the reference it captured, which dangles: the stores go to freed
\* memory, and the process goes on or crashes.
SetThreadPoolConfigAfterPool(value) ==
  /\ ~pool_alive
  /\ ~ConfigEq(value, cfg)
  /\ cfg' = value
  /\ stale_call' = ("pool" \in cfg_cbs)
  /\ IF "pool" \in cfg_cbs THEN crashed' \in BOOLEAN ELSE crashed' = crashed
  /\ loaded' = << >>
  /\ omitted_changed' = {}
  /\ UNCHANGED << status, task_queue, underflow, queue_mutex, worker_list,
                  zombie_workers, terminating_flag, busy_thread_count, monitor,
                  w_status, w_pc, pause_sem, w_task, idle_expired, created, sub, sd,
                  admitted, done, handle, pause_mark, last, max_task_count,
                  core_thread_count, max_thread_count, keep_alive_time,
                  monitor_interval, monitor_did, pool_alive, cfg_cbs >>

\* A pool that runs tasks, is shut down by its destructor and destroyed, while
\* the variable is set before and after.
LifeNext ==
  /\ ~crashed
  /\ UNCHANGED << regVars, varVars, loadVars, codecVars, lockVars, idVars >>
  /\ \/ /\ pool_alive
        /\ UNCHANGED lifeVars
        /\ \/ \E w \in Workers : WorkerStep(w) /\ UNCHANGED cfgVars
           \/ SubmitCheck /\ UNCHANGED cfgVars
           \/ SubmitEnqueue /\ UNCHANGED cfgVars
           \/ MonitorTickNoted
           \/ ShutdownCall /\ UNCHANGED cfgVars
           \/ ShutdownDrained /\ UNCHANGED cfgVars
           \/ ShutdownTerminate /\ UNCHANGED cfgVars
           \/ ShutdownNotifyAgain /\ UNCHANGED cfgVars
           \/ ShutdownJoinWorkers /\ UNCHANGED cfgVars
           \/ ShutdownJoinZombies /\ UNCHANGED cfgVars
           \/ ShutdownFinish /\ UNCHANGED cfgVars
           \/ \E value \in ScaleValues : SetThreadPoolConfig(value)
     \/ DestroyPool
     \/ \E value \in ScaleValues : SetThreadPoolConfigAfterPool(value)

LifeSpec == Init /\ [][LifeNext]_vars

\* A pool built with dynamic scaling enabled and no or one core worker.
DynInit ==
  /\ \E c \in 0..1 : Constructed([DefaultConfig EXCEPT !.core_thread_count = c])
  /\ ThreadPoolVarCreated
  /\ RegistryEmpty
  /\ VarCreated
  /\ NothingLoaded
  /\ NoLockHeld
  /\ NoKeyIssued
  /\ PoolAlive
  /\ NothingConverted

\* A pool that stays RUNNING with dynamic scaling enabled: its callers submit
\* tasks and add and remove workers, the variable changes core_thread_count
\* and max_thread_count, the clock advances and the monitor ticks.
DynNext ==
  /\ ~crashed
  /\ UNCHANGED << regVars, varVars, loadVars, codecVars, lockVars, idVars, lifeVars >>
  /\ \/ \E w \in Workers : WorkerStep(w) /\ UNCHANGED cfgVars
     \/ \E w \in Workers : TimePasses(w) /\ UNCHANGED cfgVars
     \/ SubmitCheck /\ UNCHANGED cfgVars
     \/ SubmitEnqueue /\ UNCHANGED cfgVars
     \/ \E n \in 0..MaxWorkers : IncreaseThreadCount(n) /\ UNCHANGED cfgVars
     \/ \E n \in 0..MaxWorkers : DecreaseThreadCount(n) /\ UNCHANGED cfgVars
     \/ MonitorTickNoted
     \/ \E value \in ScaleValues : SetThreadPoolConfig(value)

DynSpec == DynInit /\ [][DynNext]_vars

\* Fair scheduling of the threads of the pool: a worker that can take a step
\* takes one, a submit that holds the status lock goes on, the monitor's
\* timed wait returns every monitor_interval and the steady clock advances.
FairDynSpec ==
  /\ DynSpec
  /\ \A w \in Workers : SF_vars(WorkerStep(w) /\ UNCHANGED << cfgVars, regVars, varVars, loadVars, codecVars, lockVars, idVars, lifeVars >>)
  /\ \A w \in Workers : WF_vars(TimePasses(w) /\ UNCHANGED << cfgVars, regVars, varVars, loadVars, codecVars, lockVars, idVars, lifeVars >>)
  /\ SF_vars(SubmitEnqueue /\ UNCHANGED << cfgVars, regVars, varVars, loadVars, codecVars, lockVars, idVars, lifeVars >>)
  /\ SF_vars(MonitorTickNoted /\ UNCHANGED << regVars, varVars, loadVars, codecVars, lockVars, idVars, lifeVars >>)

----------------------------------------------------------------------------
\* Properties.

ClosedStatus == {"SHUTDOWN", "TERMINATING", "TERMINATED"}

\* A task has left the queue: a worker holds it or has executed it.
Dequeued(t) == done[t] >= 1 \/ \E w \in Workers : w_pc[w] \in {"run", "exec"} /\ w_task[w] = t

\* C1: every shutdown() call returns with the status TERMINATED, the live
\* worker list empty and the task queue empty, whatever the status was when it
\* was called and whether or not another shutdown() was in progress.
ShutdownReturnsTerminated ==
  last = "shutdown_returned" =>
    (status = "TERMINATED" /\ worker_list = << >> /\ QueueEmpty)

\* C2: every admitted task is dequeued and executed exactly once: no task is
\* executed twice, none is in the queue once the status is TERMINATING, and
\* all have been executed when the status is TERMINATED.
AdmittedTasksRunOnce ==
  /\ \A t \in Tasks : done[t] <= 1
  /\ status \in {"TERMINATING", "TERMINATED"} => task_queue = << >>
  /\ status = "TERMINATED" => \A t \in 1..admitted : done[t] = 1

\* C3: under fair scheduling a shutdown() call that found the pool RUNNING or
\* PAUSED with at least one live worker eventually returns with the status
\* TERMINATED.  (Stated with the runs that popped the empty queue set aside:
\* the property asks nothing of them, so a run that violates it violates the
\* claim whatever a pop of the empty queue does.)
ShutdownEventuallyReturns ==
  (sd = "drain" /\ worker_list # << >>) ~> (status = "TERMINATED" \/ crashed \/ underflow > 0)

\* What one step of a call on a closed pool may do.
ClosedPoolRejectsCallsStep ==
  status \in ClosedStatus =>
    /\ SubmitCheck =>
         /\ last' = "cannot_submit" /\ ~sub'
         /\ UNCHANGED << task_queue, worker_list, zombie_workers, status >>
    /\ \A n \in 0..MaxWorkers :
         (IncreaseThreadCount(n) \/ DecreaseThreadCount(n)) =>
           /\ last' = "bad_state"
           /\ UNCHANGED << task_queue, worker_list, zombie_workers, status >>

\* C4: while the status is SHUTDOWN, TERMINATING or TERMINATED, submit fails
\* with its "cannot submit" runtime error and increaseThreadCount and
\* decreaseThreadCount fail with their logic error, and each leaves the task
\* queue, the live list, the zombie list and the status as they were.
ClosedPoolRejectsCalls == [][ ClosedPoolRejectsCallsStep ]_vars

\* C4, its case: a submit was refused while the pool drained tasks it still held.
ClosedPoolRejectedSubmit ==
  last = "cannot_submit" /\ status = "SHUTDOWN" /\ task_queue # << >>

\* What one step of a submit on an open pool does according to C5.
SubmitFullExactlyAtCapStep ==
  /\ (status \in OpenStatus /\ SubmitCheck) =>
       ((last' = "queue_full" /\ ~sub')
          <=> (max_task_count # 0 /\ Len(task_queue) = max_task_count))
  /\ SubmitEnqueue => task_queue' = Append(task_queue, admitted + 1)

\* C5: on a RUNNING or PAUSED pool submit fails with the queue-full error
\* exactly when max_task_count is not 0 and the queue holds max_task_count
\* tasks; in every other case the task is appended to the queue.
SubmitFullExactlyAtCap == [][ SubmitFullExactlyAtCapStep ]_vars

\* C6: whenever max_task_count is greater than 0 the queue holds at most
\* max_task_count tasks.
QueueWithinCap ==
  max_task_count > 0 => Len(task_queue) <= max_task_count

\* C7: tasks leave the queue in the order they entered it: when a task has
\* been dequeued, every task enqueued before it has been dequeued too.
FifoOrder ==
  \A a, b \in Tasks : (a < b /\ b <= admitted /\ Dequeued(b)) => Dequeued(a)

\* C8: a task submitted while the status is PAUSED is not dequeued as long as
\* neither resume() nor shutdown() has been called (the status is still PAUSED).
PausedPoolHoldsTasks ==
  status = "PAUSED" =>
    \A t \in Tasks : (pause_mark < t /\ t <= admitted) => ~Dequeued(t)

\* The status changes that ThreadPool documents.
AllowedTransitions ==
  { << "RUNNING", "PAUSED" >>, << "PAUSED", "RUNNING" >>, << "RUNNING", "SHUTDOWN" >>,
    << "SHUTDOWN", "TERMINATING" >>, << "TERMINATING", "TERMINATED" >> }

\* C9: the status starts as RUNNING and changes only RUNNING -> PAUSED,
\* PAUSED -> RUNNING, RUNNING -> SHUTDOWN, SHUTDOWN -> TERMINATING and
\* TERMINATING -> TERMINATED; TERMINATED is never left.
StatusTransitions ==
  status = "RUNNING" /\ [][ status' # status => << status, status' >> \in AllowedTransitions ]_vars

\* C9, its case: a shutdown() called on a PAUSED pool has resumed it and is
\* about to store SHUTDOWN.
StatusResumedByShutdown ==
  sd = "resumed" /\ status = "RUNNING"

\* What one step of pause, resume or shutdown may do.
IgnoredCallsChangeNothingStep ==
  /\ (Pause /\ status # "RUNNING") =>
       /\ last' = "ok"
       /\ UNCHANGED << status, w_status, worker_list, zombie_workers, task_queue >>
  /\ (Resume /\ status # "PAUSED") =>
       /\ last' = "ok"
       /\ UNCHANGED << status, w_status, worker_list, zombie_workers, task_queue >>
  /\ (ShutdownCall /\ status \notin {"RUNNING", "PAUSED"}) =>
       /\ last' = "shutdown_returned"
       /\ UNCHANGED << status, w_status, worker_list, zombie_workers, task_queue >>
  /\ Pause => status' # "RUNNING"
  /\ Resume => status' # "PAUSED"

ManualResizeStep ==
  status \in OpenStatus =>
    \A n \in 0..MaxWorkers :
      LET live == Len(worker_list)
          k == IF n < live THEN n ELSE live
      IN /\ IncreaseThreadCount(n) =>
              /\ Len(worker_list') = live + n
              /\ SubSeq(worker_list', 1, live) = worker_list
              /\ \A i \in (live + 1)..(live + n) :
                   worker_list'[i] \notin Range(worker_list) \cup Range(zombie_workers)
              /\ zombie_workers' = zombie_workers
         /\ DecreaseThreadCount(n) =>
              /\ worker_list' = SubSeq(worker_list, 1, live - k)
              /\ zombie_workers' = zombie_workers \o SubSeq(worker_list, live - k + 1, live)
              /\ \A i \in (live - k + 1)..live :
                   /\ w_status'[worker_list[i]] = "TERMINATING"
                   /\ w_pc[worker_list[i]] = "exec" =>
                        (w_pc'[worker_list[i]] = "exec" /\ w_task' = w_task)

\* C11: on a RUNNING or PAUSED pool increaseThreadCount(n) appends exactly n
\* new workers to the live list, and decreaseThreadCount(n) moves the last
\* min(n, live) workers of the live list to the end of the zombie list, each
\* marked TERMINATING, and returns while a moved worker is still inside its task.
ManualResizeExact == [][ ManualResizeStep ]_vars

\* C11, its case: decreaseThreadCount has returned and a worker it moved to
\* the zombie list is still executing its task.
RetiredWorkerStillExecuting ==
  /\ status \in OpenStatus
  /\ last = "ok"
  /\ \E w \in Range(zombie_workers) : w_pc[w] = "exec" /\ w_status[w] = "TERMINATING"

\* C12: the busy-thread count is at most the number of workers in the live list.
BusyAtMostLive ==
  busy_thread_count <= Len(worker_list)

\* What the end of a throwing task leaves behind.
ThrowingTaskStep ==
  \A w \in Workers :
    (w_pc[w] = "exec" /\ w_task[w] \in ThrowingTasks /\ w_pc'[w] # "exec") =>
      /\ handle'[w_task[w]] = "exception"
      /\ busy_thread_count' = busy_thread_count - 1
      /\ w_pc'[w] = "post"
      /\ w_status'[w] = w_status[w]
      /\ ~crashed'

\* C14: a task that throws does not end the worker that runs it: when the task
\* ends its future holds the exception, the busy-thread count is decremented
\* and the worker is at the end of its loop body, with its status untouched.
ThrowingTaskKeepsWorker == [][ ThrowingTaskStep ]_vars

\* C14, its case: the only worker ever created ran a task that threw and is
\* now executing the task submitted after it.
WorkerRunsTaskAfterThrow ==
  /\ created = 1
  /\ \E t \in ThrowingTasks :
       /\ handle[t] = "exception"
       /\ w_pc[1] = "exec" /\ w_task[1] > t

\* What a change of the variable does to the pool, as claimed.
PoolFollowsConfigVarStep ==
  ~ConfigEq(cfg', cfg) => ConfigEq(getThreadPoolConfig', cfg')

\* C15: after the "threadpool" variable has been changed to a new value, the
\* five capacity members getThreadPoolConfig returns equal the members of the
\* new value, whatever configuration the pool was constructed with.
PoolFollowsConfigVar == [][ PoolFollowsConfigVarStep ]_vars

\* What a load leaves alone, as claimed.
OmittedFieldsKeptStep ==
  (loaded' # loaded /\ loaded' # << >>) =>
    \A f \in ConfigFields \ DOMAIN loaded'[1] :
      cfg'[f] = cfg[f] /\ getThreadPoolConfig'[f] = getThreadPoolConfig[f]

\* C16, as stated: when a "threadpool" record that omits some members is
\* loaded, each omitted member keeps its value in the variable and in the pool.
OmittedFieldsKept == [][ OmittedFieldsKeptStep ]_vars

\* What a load does.
OmittedFieldsDefaultedStep ==
  (loaded' # loaded /\ loaded' # << >>) =>
    \A f \in ConfigFields :
      /\ cfg'[f] = IF f \in DOMAIN loaded'[1] THEN loaded'[1][f] ELSE DefaultConfig[f]
      /\ getThreadPoolConfig'[f] =
           IF cfg'[f] # cfg[f] THEN cfg'[f] ELSE getThreadPoolConfig[f]

\* C16, amended: when a "threadpool" record is loaded, each member of the
\* variable the record defines takes the record's value and each member it
\* omits takes the default of ThreadPoolConfig; a capacity member of the pool
\* takes the variable's new value where the load changed the variable's member
\* and keeps its value elsewhere.
OmittedFieldsDefaulted == [][ OmittedFieldsDefaultedStep ]_vars

\* C16, its case: a load omitted a member that had another value than the
\* default, and the variable now holds the default there.
OmittedFieldWasReset ==
  /\ omitted_changed # {}
  /\ \A f \in omitted_changed : cfg[f] = DefaultConfig[f]

\* C13, as stated: while the pool is RUNNING or PAUSED the number of live
\* workers is at least core_thread_count and at most max_thread_count.
LiveWithinCoreAndMax ==
  status \in OpenStatus =>
    /\ core_thread_count <= Len(worker_list)
    /\ Len(worker_list) <= max_thread_count

\* What a monitor tick does to the number of live workers.
MonitorKeepsBoundsStep ==
  (status \in OpenStatus /\ MonitorTick) =>
    LET live == Len(worker_list)
        after == Len(worker_list')
    IN /\ after > live => (live < max_thread_count /\ after = live + 1)
       /\ after < live => (live > core_thread_count /\ after >= core_thread_count)
       /\ (core_thread_count <= live /\ live <= max_thread_count) =>
            (core_thread_count <= after /\ after <= max_thread_count)

\* C13, amended: while the pool is RUNNING or PAUSED a monitor tick adds a
\* worker only when there are fewer than max_thread_count and then exactly
\* one, removes workers only when there are more than core_thread_count and
\* never leaves fewer than core_thread_count, so a tick keeps
\* core <= live <= max where it held; increaseThreadCount, decreaseThreadCount
\* and changes of core_thread_count and max_thread_count are not held to it.
MonitorKeepsBounds == [][ MonitorKeepsBoundsStep ]_vars

\* C13, its case: a monitor tick found every worker busy and a task queued and
\* added no worker, the pool being at a max_thread_count that a change of the
\* variable installed; the bound of the model would have allowed another worker.
MonitorHeldAtMax ==
  /\ status = "RUNNING"
  /\ monitor_did = "at_max"
  /\ max_thread_count # DefaultMaxThreadCount
  /\ Len(worker_list) = max_thread_count
  /\ busy_thread_count = Len(worker_list)
  /\ task_queue # << >>
  /\ created < MaxWorkers

\* What a call on a registered name does.
RegisteredTypeKeptStep ==
  /\ \A name \in DOMAIN registry \cap DOMAIN registry' :
       (registry'[name].id = registry[name].id) =>
          registry'[name].type = registry[name].type
  /\ (reg_call'.op = "getOrCreate" /\ reg_call'.name \in DOMAIN registry) =>
       /\ registry' = registry
       /\ reg_result' = IF registry[reg_call'.name].type = reg_call'.type
                          THEN [kind |-> "var", id |-> registry[reg_call'.name].id]
                          ELSE [kind |-> "null", id |-> 0]
  /\ reg_call'.op = "get" =>
       /\ registry' = registry
       /\ reg_result' = IF /\ reg_call'.name \in DOMAIN registry
                             /\ registry[reg_call'.name].type = reg_call'.type
                          THEN [kind |-> "var", id |-> registry[reg_call'.name].id]
                          ELSE [kind |-> "null", id |-> 0]

\* C17: a variable registered with type T keeps that type; on its name
\* getOrCreateConfigVarPtr<T> returns that same variable and leaves its value
\* and description as they are, getOrCreateConfigVarPtr<U> and
\* getConfigVarPtr<U> with another type U return null and leave the registry
\* unchanged, and getConfigVarPtr never changes the registry.
RegisteredTypeKept == [][ RegisteredTypeKeptStep ]_vars

\* C17, its case: getOrCreateConfigVarPtr was called with the name of a
\* registered variable and another type than the variable's, and returned null.
WrongTypeReturnedNull ==
  /\ reg_call.op = "getOrCreate"
  /\ reg_call.name \in DOMAIN registry
  /\ registry[reg_call.name].type # reg_call.type
  /\ reg_result.kind = "null"

\* What a call with an invalid unregistered name does.
InvalidNameRejectedStep ==
  (/\ reg_call'.op = "getOrCreate"
   /\ reg_call'.name \notin DOMAIN registry
   /\ \/ reg_call'.name = << >>
      \/ \E i \in 1..Len(reg_call'.name) :
           reg_call'.name[i] \notin {46, 48, 49, 50, 51, 52, 53, 54, 55, 56, 57, 95,
                                     97, 98, 99, 100, 101, 102, 103, 104, 105, 106,
                                     107, 108, 109, 110, 111, 112, 113, 114, 115, 116,
                                     117, 118, 119, 120, 121, 122})
    => (reg_result'.kind = "invalid_argument" /\ registry' = registry)

\* Every registered name is made of the allowed characters.
RegisteredNamesValid ==
  \A name \in DOMAIN registry :
    /\ name # << >>
    /\ \A i \in 1..Len(name) :
         name[i] \in {46, 48, 49, 50, 51, 52, 53, 54, 55, 56, 57, 95,
                      97, 98, 99, 100, 101, 102, 103, 104, 105, 106,
                      107, 108, 109, 110, 111, 112, 113, 114, 115, 116,
                      117, 118, 119, 120, 121, 122}

SetValueNotifiesStep ==
  (var_call'.op = "setValue" /\ << var_call, calls, m_val >>' # << var_call, calls, m_val >>) =>
    /\ m_cbs' = m_cbs
    /\ IF var_call'.arg = m_val
         THEN m_val' = m_val /\ calls' = << >>
         ELSE /\ m_val' = var_call'.arg
              /\ Len(calls') = Cardinality(m_cbs)
              /\ { calls'[i].id : i \in 1..Len(calls') } = m_cbs
              /\ \A i \in 1..Len(calls') :
                   /\ calls'[i].old_val = m_val
                   /\ calls'[i].new_val = var_call'.arg
                   /\ calls'[i].id \notin removed

\* C19: setValue(v) with v equal to the value of the variable changes nothing
\* and calls no listener; with another v it stores v and calls each listener
\* registered at that moment exactly once with (old value, v), and calls no
\* listener that delListener or clearAllListener removed.
SetValueNotifies == [][ SetValueNotifiesStep ]_vars

\* C19, its case: a setValue changed the value and called the two listeners
\* that were left after another one had been removed.
TwoListenersCalledOneRemoved ==
  /\ var_call.op = "setValue"
  /\ Len(calls) = 2
  /\ removed # {}

\* C20: the listeners of one setValue are called in ascending order of their keys.
ListenersCalledAscending ==
  \A i, j \in 1..Len(calls) : i < j => calls[i].id < calls[j].id

\* What an addListener call of the variable returns.
ListenerIdsIncreaseStep ==
  var_call'.op = "addListener" =>
    /\ \A id \in returned : var_call'.arg > id
    /\ var_call'.arg \notin removed
    /\ var_call'.arg \in m_cbs'

\* C21: every addListener call of a variable returns a key greater than every
\* key the variable returned before, so the keys are unique and a key freed by
\* delListener or clearAllListener is not handed out again.
ListenerIdsIncrease == [][ ListenerIdsIncreaseStep ]_vars

\* C21, its case: addListener returned a key after an earlier key of the
\* variable was freed and another variable took a key in between.
ListenerAddedAfterRemoval ==
  /\ var_call.op = "addListener"
  /\ removed # {}
  /\ var_call.arg > Cardinality(returned)

\* What a fromString or a toString call does.
FromStringReportsFailureStep ==
  /\ var_call'.op = "fromString" =>
       /\ ~var_result'.threw
       /\ var_result'.ret = ~convertToInt(var_result'.input).threw
       /\ ~var_result'.ret => (m_val' = m_val /\ calls' = << >>)
  /\ var_call'.op = "strFromString" =>
       /\ ~var_result'.threw
       /\ var_result'.ret = ~convertToString(var_result'.input).threw
       /\ ~var_result'.ret => str_val' = str_val
  /\ var_call'.op = "toString" =>
       /\ ~var_result'.threw
       /\ convertToString(DecimalText(m_val)).threw => var_result'.output = << >>
  /\ var_call'.op = "strToString" =>
       /\ ~var_result'.threw
       /\ convertToString(str_val).threw => var_result'.output = << >>

FlattenedKeys(root) ==
  { listAllMembers(<< >>, root)[i].key : i \in 1..Len(listAllMembers(<< >>, root)) }

\* What a loadFromYaml call does to the registry.
LoadFromYamlAddsNothingStep ==
  reg_call'.op = "loadFromYaml" =>
    /\ DOMAIN registry' = DOMAIN registry
    /\ \A name \in DOMAIN registry :
         /\ registry'[name] = [registry[name] EXCEPT !.val = registry'[name].val]
         /\ name \notin FlattenedKeys(yaml_root') => registry'[name] = registry[name]

\* C23: loadFromYaml adds no variable to the registry: the set of registered
\* names is the same before and after, a key that is not registered is passed
\* over, and only a variable whose name is a flattened key of the document can
\* change its value.
LoadFromYamlAddsNothing == [][ LoadFromYamlAddsNothingStep ]_vars

\* C23, its case: a document with the keys "a", "A" and "A.a" was loaded while
\* "a" and "0" are registered and "a.a" is not; "a" holds the 1 of the document.
LoadedWithUnknownKeys ==
  /\ reg_call.op = "loadFromYaml"
  /\ yaml_root = YamlMap(<< [key |-> << 97 >>, node |-> YamlScalar(<< 49 >>)],
                            [key |-> << 65 >>,
                             node |-> YamlMap(<< [key |-> << 97 >>,
                                                  node |-> YamlScalar(<< 49 >>)] >>)] >>)
  /\ DOMAIN registry = { << 97 >>, << 48 >> }
  /\ registry[<< 97 >>].val = 1
  /\ registry[<< 48 >>].val = 0

\* The files a loadFromConfDir call found and could read the time of.
FilesRead(call) == Range(call.files) \ call.vanished

\* What a loadFromConfDir call does with files of unchanged and changed time.
ConfDirSkipsUnchangedStep ==
  dir_call'.op = "load" =>
    IF dir_call'.force
      THEN /\ \A f \in FilesRead(dir_call') :
                /\ f \in dir_call'.applied \cup dir_call'.failed
                /\ cached_timestamp'[f] = file_mtime[f]
           /\ \A f \in Files :
                (FilesRead(dir_call') = {f} /\ file_text[f].state = "yaml") =>
                   registry' = loadFromYaml(registry, file_text[f].root)
      ELSE /\ \A f \in FilesRead(dir_call') :
                file_mtime[f] = cached_timestamp[f] =>
                  /\ f \notin dir_call'.applied \cup dir_call'.failed
                  /\ cached_timestamp'[f] = cached_timestamp[f]
           /\ \A name \in DOMAIN registry :
                (\A f \in FilesRead(dir_call') :
                   file_mtime[f] # cached_timestamp[f] =>
                     name \notin FlattenedKeys(file_text[f].root))
                  => registry'[name] = registry[name]

\* C24: loadFromConfDir without force does not apply a file again whose last
\* write time equals the timestamp cached at its previous load, so the values
\* set by setValue since then are kept; with force it applies every file
\* whatever the cache holds and stores the current timestamp of each file.
ConfDirSkipsUnchanged == [][ ConfDirSkipsUnchangedStep ]_vars

\* C24, its case: a load without force passed over the file "a: 1", whose
\* time is the cached one, and the variable "a" holds 0, not the 1 of the file.
UnchangedFileSkipped ==
  /\ dir_call.op = "load"
  /\ ~dir_call.force
  /\ dir_call.skipped = {1}
  /\ dir_call.applied = {}
  /\ file_text[1] = YamlFile(YamlMap(<< [key |-> << 97 >>, node |-> YamlScalar(<< 49 >>)] >>))
  /\ cached_timestamp[1] = file_mtime[1]
  /\ << 97 >> \in DOMAIN registry
  /\ registry[<< 97 >>].val = 0

\* What a loadFromConfDir call does when a file cannot be parsed.
ParseFailureKeepsLoadingStep ==
  dir_call'.op = "load" =>
    LET due == { f \in FilesRead(dir_call') :
                   dir_call'.force \/ file_mtime[f] # cached_timestamp[f] }
    IN /\ dir_call'.failed = { f \in due : file_text[f].state = "malformed" }
       /\ dir_call'.applied = { f \in due : file_text[f].state = "yaml" }
       /\ \A f \in dir_call'.failed : cached_timestamp'[f] = file_mtime[f]
       /\ \A f \in dir_call'.applied :
            \A name \in DOMAIN registry :
              (/\ name \in FlattenedKeys(file_text[f].root)
               /\ \A g \in dir_call'.applied \ {f} :
                    name \notin FlattenedKeys(file_text[g].root))
                => registry'[name] = loadFromYaml(registry, file_text[f].root)[name]

\* After a failed load the cache holds the time of the file as long as the
\* file is not written again, so a load without force passes over it.
FailedFileCached ==
  \A f \in Files :
    (dir_call.op = "load" /\ f \in dir_call.failed) =>
      /\ cached_timestamp[f] = file_mtime[f]
      /\ ShouldSkip(FALSE, file_mtime[f], cached_timestamp[f])

\* C25: when a file cannot be parsed during loadFromConfDir the other files
\* are loaded all the same, and the timestamp of the failing file is cached
\* already, so later loads without force pass over it until its time changes.
ParseFailureKeepsLoading == []FailedFileCached /\ [][ ParseFailureKeepsLoadingStep ]_vars

\* C25, its case: the first file of the listing could not be parsed, the
\* second one was loaded after it and set "a" to 1.
SecondFileLoadedAfterFailure ==
  /\ dir_call.op = "load"
  /\ Len(dir_call.files) = 2
  /\ dir_call.files[1] \in dir_call.failed
  /\ dir_call.files[2] \in dir_call.applied
  /\ << 97 >> \in DOMAIN registry
  /\ registry[<< 97 >>].val = 1

\* Equality of two values of a converted type: operator== of the vectors and
\* of the sets, and the operator== of ThreadPoolConfig.
CodecEq(a, b) ==
  /\ a.type = b.type
  /\ a.vec = b.vec
  /\ a.set = b.set
  /\ ConfigEq(a.config, b.config)

\* C26: a value of a converted type that is converted to YAML text and back
\* gives a value equal to it: no converter throws and the result is equal.
RoundTripGivesEqualValue ==
  /\ codec_state # "threw"
  /\ codec_state = "back" => CodecEq(codec_back, codec_val)

\* C27: from the return of pause() until resume() or shutdown() is called no
\* worker removes a task from the queue: a step that begins and ends with the
\* status PAUSED takes nothing from the queue.
PausedPoolDequeuesNothing ==
  [][ (status = "PAUSED" /\ status' = "PAUSED") =>
        (Len(task_queue') >= Len(task_queue) /\ underflow' <= underflow) ]_vars

\* A monitor tick that adds workers finds the status RUNNING, every live
\* worker busy, a task in the queue and fewer live workers than
\* max_thread_count, and adds one worker.
MonitorGrowsOnlyWhenSaturatedStep ==
  (MonitorTick /\ Len(worker_list') > Len(worker_list)) =>
     /\ status = "RUNNING"
     /\ busy_thread_count = Len(worker_list)
     /\ task_queue # << >>
     /\ Len(worker_list) < max_thread_count
     /\ Len(worker_list') = Len(worker_list) + 1

\* C28: a monitor tick adds a worker only when the status is RUNNING, the busy
\* count equals the live count, the queue is not empty and the live count is
\* below max_thread_count, and then it adds exactly one; a tick of a PAUSED
\* pool adds none.
MonitorGrowsOnlyWhenSaturated ==
  [][ /\ MonitorGrowsOnlyWhenSaturatedStep
      /\ (MonitorTick /\ status = "PAUSED") => Len(worker_list') <= Len(worker_list) ]_vars

\* What one monitor tick does to the list of live workers.
MonitorTickOneWayStep ==
  MonitorTick =>
    LET added == Range(worker_list') \ Range(worker_list)
        retired == Range(worker_list) \ Range(worker_list')
    IN /\ added = {} \/ retired = {}
       /\ added # {} =>
            /\ Len(worker_list') = Len(worker_list) + 1
            /\ Len(worker_list') <= max_thread_count
            /\ zombie_workers' = zombie_workers
       /\ retired # {} =>
            /\ Len(worker_list') = Len(worker_list) - Cardinality(retired)
            /\ Len(worker_list') >= core_thread_count
            /\ Range(zombie_workers') = Range(zombie_workers) \cup retired
       /\ (added = {} /\ retired = {}) =>
            UNCHANGED << worker_list, zombie_workers, w_status, w_pc, created >>
       /\ status \notin OpenStatus =>
            UNCHANGED << worker_list, zombie_workers, w_status, w_pc, created >>

\* C29: one monitor tick adds one worker, or removes one or more, or changes
\* nothing, and never adds and removes; removing leaves at least
\* core_thread_count live workers, adding leaves at most max_thread_count,
\* and a tick of a pool that is neither RUNNING nor PAUSED changes nothing.
MonitorTickOneWay == [][MonitorTickOneWayStep]_vars

\* The monitor ticked on a pool in shutdown that held, beyond its core
\* workers, a timed-out worker while not every worker was busy, and retired
\* nobody.
TickLeftClosedPoolAlone ==
  /\ monitor_did = "closed"
  /\ status = "SHUTDOWN"
  /\ Len(worker_list) > core_thread_count
  /\ busy_thread_count < Len(worker_list)
  /\ TimedOutCount > 0
  /\ zombie_workers = << >>

\* Every worker that a monitor tick moves to the zombie list stands behind the
\* first core_thread_count entries of the live list, is not in task(), and
\* has been idle for keep_alive_time.
ShrinkRetiresIdleWorkersStep ==
  MonitorTick =>
    \A w \in Range(zombie_workers') \ Range(zombie_workers) :
       /\ \E i \in (core_thread_count + 1)..Len(worker_list) : worker_list[i] = w
       /\ w_pc[w] # "exec"
       /\ idle_expired[w]

\* C30: every worker that a monitor shrink moves from the live list to the
\* zombie list is a non-core worker that is not executing a task and whose
\* idle time is at least keep_alive_time at that tick.
ShrinkRetiresIdleWorkers == [][ShrinkRetiresIdleWorkersStep]_vars

\* The pool is RUNNING with its monitor, every live worker is busy and a task
\* is queued.
Saturated ==
  /\ status = "RUNNING"
  /\ monitor = "run"
  /\ busy_thread_count = Len(worker_list)
  /\ task_queue # << >>

Quiet ==
  /\ task_queue = << >>
  /\ ~sub
  /\ busy_thread_count = 0
  /\ \A w \in Workers : w_pc[w] \notin {"run", "exec"}

\* Worker w has never received a task: every admitted task is accounted for
\* by another worker, one that holds a task or has stored a last-active time
\* after its construction.
NeverReceived(w) ==
  Cardinality({ v \in Workers \ {w} :
                  ~idle_expired[v] \/ w_pc[v] \in {"run", "exec", "post"} }) >= admitted

\* A tick of a quiet pool retires every worker behind the first
\* core_thread_count entries of the list that has never received a task, and
\* no tick leaves fewer than core_thread_count workers by what it retires.
IdleTickStep ==
  MonitorTick =>
    /\ Len(worker_list') < Len(worker_list) => Len(worker_list') >= core_thread_count
    /\ (status \in OpenStatus /\ Quiet) =>
         \A i \in (core_thread_count + 1)..Len(worker_list) :
            NeverReceived(worker_list[i]) => worker_list[i] \notin Range(worker_list')

\* C32: with dynamic scaling enabled, once no task is queued or executing the
\* monitor brings the number of live workers down to core_thread_count and
\* never below it, and a worker beyond the core ones that never received a
\* task is retired by the next monitor tick.
MonitorShrinksToCore ==
  /\ <>[]Quiet => <>[](Len(worker_list) <= core_thread_count)
  /\ [][IdleTickStep]_vars

\* The place of each mutex in the order: the pool status, the live list and
\* the zombie list, the task queue, then the status of a worker.  The monitor
\* mutex is held with no other.
LockRank(l) ==
  CASE l = "monitor" -> 0
    [] l = "status" -> 1
    [] l = "list" -> 2
    [] l = "zombie" -> 3
    [] l = "queue" -> 4
    [] OTHER -> 5

\* Thread t stands before a lock call.
Requesting(t) == lk_pc[t] > 0 /\ NextCall(t).op # "unlock"

\* Every mutex a thread holds comes earlier in the order than the one it
\* requests.
LockOrderKept ==
  \A t \in LockThreads :
     Requesting(t) => \A h \in lk_held[t] : LockRank(h) < LockRank(NextCall(t).lock)

\* Thread t waits for a mutex that thread u holds.
WaitsFor(t, u) ==
  /\ t # u
  /\ Requesting(t)
  /\ ~Available(NextCall(t))
  /\ NextCall(t).lock \in lk_held[u]

\* No set of threads in which everyone waits for a mutex held in the set.
NoWaitCycle ==
  \A group \in SUBSET LockThreads :
     group # {} => \E t \in group : \A u \in group : ~WaitsFor(t, u)

\* C33: every thread takes the mutexes in the order pool status, worker
\* lists, task queue, worker status and never requests an earlier one while
\* it holds a later one; a worker that holds the queue mutex never requests
\* the pool status mutex; no cycle of threads waiting for each other's
\* mutexes is reachable.
LocksTakenInOrder ==
  /\ LockOrderKept
  /\ \A t \in DOMAIN WorkerLock :
       "queue" \in lk_held[t] => ~(Requesting(t) /\ NextCall(t).lock = "status")
  /\ NoWaitCycle

\* A chain of waiting threads that is no cycle: the monitor waits for the pool
\* status mutex, its holder (inside submit) waits for the queue mutex, and
\* the worker that holds the queue mutex is about to take its own status
\* mutex.
WaitChain ==
  /\ WaitsFor("monitor", "caller")
  /\ WaitsFor("caller", "worker1")
  /\ lk_held["caller"] = {"status"}
  /\ lk_held["worker1"] = {"queue"}
  /\ Requesting("worker1")
  /\ NextCall("worker1").lock = "w1"

\* Worker w was moved to the zombie list and marked TERMINATING by
\* decreaseThreadCount or by a monitor shrink.
Retired(w) == w \in Range(zombie_workers) /\ w_status[w] = "TERMINATING"

\* C34: under fair scheduling every worker that decreaseThreadCount or a
\* monitor shrink marks TERMINATING wakes, sets its status to TERMINATED and
\* leaves its loop, with no later submit or shutdown needed to wake it.
RetiredWorkersExit ==
  \A w \in Workers : Retired(w) ~> (w_pc[w] = "exited" /\ w_status[w] = "TERMINATED")

\* The lists of keys that lead from the root of a document to a node below it.
KeyLists ==
  { << k >> : k \in FlatKeys } \cup { << k1, k2 >> : k1 \in FlatKeys, k2 \in FlatKeys }

\* The keys of a list joined by '.'.
RECURSIVE DottedPath(_)
DottedPath(keys) ==
  IF Len(keys) = 1
    THEN keys[1]
    ELSE DottedPath(SubSeq(keys, 1, Len(keys) - 1)) \o << 46 >> \o keys[Len(keys)]

NoNode == [kind |-> "none", text |-> << >>, entries |-> << >>]

\* The node reached from node through the map entries with these keys, NoNode
\* when a key is missing or the node on the way is not a map.
RECURSIVE NodeAt(_, _)
NodeAt(node, keys) ==
  IF keys = << >> THEN node
  ELSE IF node.kind # "map" THEN NoNode
  ELSE IF \A i \in 1..Len(node.entries) : node.entries[i].key # Head(keys) THEN NoNode
  ELSE NodeAt(node.entries[CHOOSE i \in 1..Len(node.entries) :
                             node.entries[i].key = Head(keys)].node,
              Tail(keys))

\* The dotted path of the node at these keys and of every node above it is a
\* valid name.
ValidPath(keys) ==
  \A n \in 1..Len(keys) : isValidName(DottedPath(SubSeq(keys, 1, n)))

\* The nodes of a document that are to be emitted, as lists of keys.
EmittedPaths(root) ==
  { p \in KeyLists : NodeAt(root, p) # NoNode /\ ValidPath(p) }

\* C35: the pairs listAllMembers made of a document are exactly one (dotted
\* key, node) pair for each node below the root that is reached through map
\* entries along a path of valid names, a parent before its children; there
\* is no pair for the root, for a node at an invalid path, for a node below
\* such a node, or for an item of a sequence.
FlatteningExact ==
  /\ Len(all_nodes) = Cardinality(EmittedPaths(yaml_root))
  /\ \A p \in EmittedPaths(yaml_root) :
       \E j \in 1..Len(all_nodes) :
         /\ all_nodes[j] = [key |-> DottedPath(p), node |-> NodeAt(yaml_root, p)]
         /\ Len(p) > 1 =>
              \E i \in 1..(j - 1) :
                all_nodes[i].key = DottedPath(SubSeq(p, 1, Len(p) - 1))

\* The documents none of whose keys is empty.
RECURSIVE NoEmptyKey(_)
NoEmptyKey(node) ==
  \A i \in 1..Len(node.entries) :
    (node.kind = "map" => node.entries[i].key # << >>) /\ NoEmptyKey(node.entries[i].node)

\* C35 for the documents whose keys are not empty.
FlatteningExactForNamedKeys == NoEmptyKey(yaml_root) => FlatteningExact

\* C35, its case: "a" holds a map with the entry "a" and "A" a scalar; the
\* pairs are "a" and then "a.a".
FlattenedNestedMap ==
  /\ yaml_root = YamlMap(<< [key |-> << 65 >>, node |-> YamlScalar(<< 49 >>)],
                            [key |-> << 97 >>,
                             node |-> YamlMap(<< [key |-> << 97 >>,
                                                  node |-> YamlScalar(<< 49 >>)] >>)] >>)
  /\ Len(all_nodes) = 2
  /\ all_nodes[1].key = << 97 >>
  /\ all_nodes[2].key = << 97, 46, 97 >>

\* C36: no two addListener calls of the process returned the same key,
\* whichever variables they were made on and whatever the value types of
\* those variables are.
ListenerIdsUniqueInProcess ==
  \A i, j \in 1..Len(issued) : i # j => issued[i].key # issued[j].key

\* C36, amended: no two addListener calls on variables of the same value type
\* returned the same key; each value type has a counter of its own.
ListenerIdsUniquePerType ==
  \A i, j \in 1..Len(issued) :
    (i # j /\ issued[i].type = issued[j].type) => issued[i].key # issued[j].key

\* C36, its case: two ConfigVar<int> got the keys 1 and 2 between them, and the
\* first addListener call on the ConfigVar<std::string> returned 1 as well.
SameKeyForAnotherType ==
  /\ Len(issued) = 3
  /\ issued[1] = [var |-> "int_var", type |-> "int", key |-> 1]
  /\ issued[2] = [var |-> "other_int_var", type |-> "int", key |-> 2]
  /\ issued[3] = [var |-> "str_var", type |-> "string", key |-> 1]
  /\ 1 \in m_cbs
  /\ 1 \in str_cbs

\* A task is queued in a RUNNING pool that has a live worker, and no pop of the
\* empty queue has left the queue in an undefined state.
TaskLeftQueued ==
  /\ status = "RUNNING"
  /\ Len(worker_list) >= 1
  /\ task_queue # << >>
  /\ underflow = 0
  /\ ~crashed

\* C37: under fair scheduling a task queued in a pool that stays RUNNING and
\* keeps a live worker is eventually dequeued: the pool does not stay for ever
\* RUNNING with a live worker and a non-empty queue, whatever submit, pause,
\* resume, decreaseThreadCount and the monitor did before.
QueuedTaskIsTaken == []<>(~TaskLeftQueued)

\* C38: a shutdown() call made on a RUNNING or a PAUSED pool returns, with
\* every task terminating and the threads scheduled fairly, also when no live
\* worker is left while tasks are queued (or the run has left the defined
\* behaviour of the queue before).
ShutdownReturns ==
  (sd \in {"resumed", "drain"}) ~> (sd = "done" \/ crashed \/ underflow > 0)

\* C39: a pool that has been shut down and destroyed has no listener left on
\* the "threadpool" variable, and no change of the variable calls the listener
\* of a destroyed pool.
OnlyLivePoolsAreNotified ==
  /\ ~pool_alive => "pool" \notin cfg_cbs
  /\ ~stale_call

\* What clearAllData does, and what a load does to files whose last write time
\* is the cached one.
ClearKeepsTimestampsStep ==
  /\ reg_call'.op = "clearAllData" =>
       /\ registry' = << >>
       /\ cached_timestamp' = cached_timestamp
  /\ (dir_call'.op = "load" /\ ~dir_call'.force) =>
       /\ \A f \in Range(dir_call'.files) \ dir_call'.vanished :
            file_mtime[f] = cached_timestamp[f] => f \in dir_call'.skipped
       /\ (\A f \in Range(dir_call'.files) : file_mtime[f] = cached_timestamp[f])
            => registry' = registry
  /\ (dir_call'.op = "load" /\ dir_call'.force) => dir_call'.skipped = {}

\* C40: clearAllData empties the registry and leaves the cache of last write
\* times as it is: a later loadFromConfDir without force passes over every
\* file whose last write time is the cached one, so variables registered
\* again keep their default values, and a load with force passes over no file.
ClearKeepsTimestamps == [][ ClearKeepsTimestampsStep ]_vars

\* C40, its case: the registry was emptied and "a" registered again, as the
\* second variable the process created; a load without force passed over the
\* file "a: 1", whose last write time an earlier load had cached, and "a"
\* holds its default 0.
DefaultKeptAfterClear ==
  /\ dir_call.op = "load"
  /\ ~dir_call.force
  /\ \E f \in dir_call.skipped :
       file_text[f] = YamlFile(YamlMap(<< [key |-> << 97 >>, node |-> YamlScalar(<< 49 >>)] >>))
  /\ DOMAIN registry = { << 97 >> }
  /\ registry[<< 97 >>].id = 2
  /\ registry[<< 97 >>].val = 0

====
